---- MODULE Spec2Model ----
(***************************************************************************)
(* Day-schedule construction pipeline of travel-companion:                 *)
(*   - ScheduleBuilder.build_schedule   (services/internal/schedule_builder.py) *)
(*   - RouteOptimizer.optimize_day      (services/internal/route_optimizer.py)  *)
(*   - ItineraryScorer.evaluate         (generators/day_plan/quality/scorer.py) *)
(*                                                                         *)
(* Representation of time.  A datetime is an integer number of minutes     *)
(* since 00:00 of schedule_date (so a value >= 1440 lies on a later date). *)
(* A datetime.time is its minute of the day, 0..1439.  An "HH:MM" string   *)
(* is the pair <<HH, MM>>.                                                 *)
(***************************************************************************)
EXTENDS Integers, Sequences, FiniteSets, TLC

(***************************************************************************)
(* Bounds of the model                                                     *)
(***************************************************************************)
\* longest place list handed to build_schedule
MaxDayPlaces == 3

\* longest place list handed to optimize_day
MaxTourPlaces == 4

\* longest list of metric results handed to the report aggregation
MaxResults == 3

\* most days of an itinerary handed to evaluate day by day
MaxItineraryDays == 2

\* longest waypoint list given to compute_routes_batch
MaxWaypoints == 4

\* longest duration the service answers for a leg of _optimize_tsp
MaxLegSeconds == 3

None == -1

MinutesPerDay == 24 * 60

(***************************************************************************)
(* Configuration                                                           *)
(***************************************************************************)
\* schedule_builder.py: PACE_MULTIPLIERS, in tenths (1.3, 1.0, 0.8)
PACE_MULTIPLIERS == [relaxed |-> 13, moderate |-> 10, packed |-> 8]

\* config/tuning.py: SchedulingConfig
SCHEDULING ==
    [ transition_buffer     |-> 15,
      min_activity_duration |-> 30,
      default_day_start     |-> <<9, 0>>,
      default_day_end       |-> <<21, 0>>,
      lunch_start           |-> <<12, 0>>,
      lunch_end             |-> <<14, 0>>,
      dinner_start          |-> <<18, 30>>,
      dinner_end            |-> <<21, 0>> ]

\* config/planning.py: DURATION_BY_TYPE
DURATION_BY_TYPE ==
    [ museum |-> 90, art_gallery |-> 60,
      church |-> 30, hindu_temple |-> 45, mosque |-> 45, place_of_worship |-> 30,
      historical_landmark |-> 45, monument |-> 30, palace |-> 60, castle |-> 60,
      fort |-> 60,
      park |-> 60, garden |-> 45, zoo |-> 120, aquarium |-> 90,
      national_park |-> 120, beach |-> 90,
      amusement_park |-> 180, tourist_attraction |-> 45, stadium |-> 30,
      movie_theater |-> 150, performing_arts_theater |-> 120,
      restaurant |-> 75, cafe |-> 45, bar |-> 60, bakery |-> 20, coffee_shop |-> 30,
      shopping_mall |-> 90, market |-> 60, clothing_store |-> 45,
      default |-> 45 ]

\* _parse_time_str: "HH:MM" -> time
ParseTimeStr(s) == s[1] * 60 + s[2]

\* datetime.strftime("%H:%M"): the date is not printed, only the time of day
Strftime(dt) == << (dt % MinutesPerDay) \div 60, dt % 60 >>

\* datetime.time()
TimeOf(dt) == dt % MinutesPerDay

\* datetime.date(), as the number of days after schedule_date
DateOf(dt) == dt \div MinutesPerDay

\* datetime.combine(date, time)
Combine(d, t) == d * MinutesPerDay + t

\* ScheduleConfig() with its defaults
ScheduleConfig ==
    [ day_start           |-> ParseTimeStr(SCHEDULING.default_day_start),
      day_end             |-> ParseTimeStr(SCHEDULING.default_day_end),
      lunch_window_start  |-> ParseTimeStr(SCHEDULING.lunch_start),
      lunch_window_end    |-> ParseTimeStr(SCHEDULING.lunch_end),
      dinner_window_start |-> ParseTimeStr(SCHEDULING.dinner_start),
      dinner_window_end   |-> ParseTimeStr(SCHEDULING.dinner_end),
      lunch_target        |-> 12 * 60 + 30,
      dinner_target       |-> 19 * 60,
      buffer_minutes      |-> SCHEDULING.transition_buffer ]

(***************************************************************************)
(* Inputs of build_schedule                                                *)
(***************************************************************************)
Paces == {"relaxed", "moderate", "packed"}

\* Python weekday() of schedule_date: 0 = Monday .. 6 = Sunday
Weekdays == {6, 1}

\* PlaceCandidate.types
TypeChoices == { <<"point_of_interest", "museum">>, <<"food", "bakery">> }

\* PlaceCandidate.suggested_duration_minutes; 0 stands for None (both falsy)
SuggestedChoices == {0, 900}

\* PlaceCandidate.opening_hours; <<>> stands for None (both falsy).
\* day follows Google's convention, 0 = Sunday.
HoursChoices ==
    { <<>>,
      << [day |-> 0, open_time |-> <<20, 40>>],
         [day |-> 1, open_time |-> <<10, 0>>] >> }

\* Route.duration_seconds
RouteSeconds == {659, 10800}

SeqsOfLen(S, n) == [1..n -> S]

PlaceShapes ==
    [ types : TypeChoices,
      suggested_duration_minutes : SuggestedChoices,
      opening_hours : HoursChoices ]

\* a place list: the k-th place carries place_id k
PlaceLists(n) ==
    { [k \in 1..n |-> [ place_id |-> k,
                        types |-> sh[k].types,
                        suggested_duration_minutes |-> sh[k].suggested_duration_minutes,
                        opening_hours |-> sh[k].opening_hours ]] :
      sh \in SeqsOfLen(PlaceShapes, n) }

RouteLists(n) ==
    { [k \in 1..n |-> [duration_seconds |-> d[k]]] : d \in SeqsOfLen(RouteSeconds, n) }

(***************************************************************************)
(* ScheduleBuilder helpers                                                 *)
(***************************************************************************)
RECURSIVE TypeDuration(_, _)
\* _get_duration, the type-based fallback: the first type found in the table
TypeDuration(types, k) ==
    IF k > Len(types) THEN DURATION_BY_TYPE["default"]
    ELSE IF types[k] \in DOMAIN DURATION_BY_TYPE THEN DURATION_BY_TYPE[types[k]]
    ELSE TypeDuration(types, k + 1)

\* ScheduleBuilder._get_duration
GetDuration(place, pace) ==
    LET base_duration ==
            IF place.suggested_duration_minutes # 0
            THEN place.suggested_duration_minutes
            ELSE TypeDuration(place.types, 1)
        adjusted == (base_duration * PACE_MULTIPLIERS[pace]) \div 10
    IN  ((adjusted + 7) \div 15) * 15

RECURSIVE FirstHoursFor(_, _, _)
\* the loop of _adjust_for_opening_hours: index of the first entry for google_day
FirstHoursFor(hours, google_day, k) ==
    IF k > Len(hours) THEN 0
    ELSE IF hours[k].day = google_day THEN k
    ELSE FirstHoursFor(hours, google_day, k + 1)

\* variant of AdjustForOpeningHours: the first entry is used whatever its day
AdjustForOpeningHours_AnyDay(place, now, weekday0) ==
    IF place.opening_hours = <<>> THEN None
    ELSE LET open_time == ParseTimeStr(place.opening_hours[1].open_time)
         IN  IF TimeOf(now) < open_time
             THEN Combine(DateOf(now), open_time)
             ELSE None

\* ScheduleBuilder._adjust_for_opening_hours; weekday0 is schedule_date.weekday()
AdjustForOpeningHours(place, now, weekday0) ==
    IF place.opening_hours = <<>> THEN None
    ELSE LET day_of_week == (weekday0 + DateOf(now)) % 7
             google_day  == (day_of_week + 1) % 7
             k           == FirstHoursFor(place.opening_hours, google_day, 1)
         IN  IF k = 0 THEN None
             ELSE LET open_time == ParseTimeStr(place.opening_hours[k].open_time)
                  IN  IF TimeOf(now) < open_time
                      THEN Combine(DateOf(now), open_time)
                      ELSE None

\* ScheduleBuilder._is_meal_place
IsMealPlace(place) ==
    LET meal_types == {"restaurant", "cafe", "bakery", "bar", "food"}
    IN  {place.types[k] : k \in 1..Len(place.types)} \cap meal_types # {}

\* variant of PlaceAt: the list is walked from its end
PlaceAt_Reversed(ps, idx) == ps[Len(ps) - idx]

\* the place of loop iteration i (enumerate is 0-based, sequences 1-based)
PlaceAt(ps, idx) == ps[idx + 1]

\* variant of MealDecision: any place reached before its lunch takes the
\* lunch branch
MealDecision_AnyPlace(is_meal, ms, nmeals, had_lunch, had_dinner, current_time_only) ==
    IF ~had_lunch
    THEN IF current_time_only < ScheduleConfig.lunch_window_start
         THEN "lunch_wait" ELSE "lunch"
    ELSE "none"

\* build_schedule lines 108-127: which meal branch the place takes.
\* ms is meals_scheduled after the increment of line 109.
MealDecision(is_meal, ms, nmeals, had_lunch, had_dinner, current_time_only) ==
    LET is_lunch_slot == ms = 1 /\ nmeals >= 1
        is_dinner_slot ==
            \/ ms = 2
            \/ (ms = 1 /\ current_time_only >= ScheduleConfig.dinner_window_start)
    IN  IF ~is_meal THEN "none"
        ELSE IF is_lunch_slot /\ ~had_lunch
             THEN IF current_time_only < ScheduleConfig.lunch_window_start
                  THEN "lunch_wait" ELSE "lunch"
        ELSE IF is_dinner_slot /\ ~had_dinner
             THEN IF current_time_only < ScheduleConfig.dinner_window_start
                  THEN "dinner_wait" ELSE "dinner"
        ELSE "none"

\* variant of MealClock: a waiting lunch starts when the lunch window opens
MealClock_WindowStart(decision, gated) ==
    IF decision = "lunch_wait" THEN Combine(0, ScheduleConfig.lunch_window_start)
    ELSE IF decision = "dinner_wait" THEN Combine(0, ScheduleConfig.dinner_target)
    ELSE gated

\* build_schedule lines 119 and 126: the clock after the meal wait
MealClock(decision, gated) ==
    IF decision = "lunch_wait" THEN Combine(0, ScheduleConfig.lunch_target)
    ELSE IF decision = "dinner_wait" THEN Combine(0, ScheduleConfig.dinner_target)
    ELSE gated

\* variant of AvailableMinutes: the time left is rounded down to a quarter hour
AvailableMinutes_ToQuarter(clock, day_end) == ((day_end - clock) \div 15) * 15

\* build_schedule line 154
AvailableMinutes(clock, day_end) == ((day_end - clock) * 60) \div 60

\* variant of DayEndOutcome: the day end is not checked
DayEndOutcome_Unchecked(clock, duration, day_end) == "full"

\* variant of DayEndOutcome: the minimum-duration floor is not applied
DayEndOutcome_NoFloor(clock, duration, day_end) ==
    IF clock + duration > day_end
    THEN IF clock >= day_end THEN "skip_past" ELSE "shrunk"
    ELSE "full"

\* build_schedule lines 141-160: what happens to the place at the day end
DayEndOutcome(clock, duration, day_end) ==
    IF clock + duration > day_end
    THEN IF clock >= day_end THEN "skip_past"
         ELSE IF AvailableMinutes(clock, day_end) >= SCHEDULING.min_activity_duration
              THEN "shrunk"
              ELSE "skip_short"
    ELSE "full"

\* build_schedule lines 172-180: next start = end + travel + buffer
NextStart(end_time, rs, idx) ==
    LET travel_minutes == IF idx < Len(rs) THEN rs[idx + 1].duration_seconds \div 60
                          ELSE 0
    IN  end_time + travel_minutes + ScheduleConfig.buffer_minutes

(***************************************************************************)
(* Inputs of optimize_day and the routing collaborator                     *)
(***************************************************************************)
\* PlaceCandidate as the optimizer sees it: an identifier and a Location
\* (grid coordinates).  The same place may occur twice in a list.
TourPlaces ==
    { [place_id |-> "a", location |-> <<0, 0>>],
      [place_id |-> "b", location |-> <<2, 0>>],
      [place_id |-> "c", location |-> <<1, 0>>],
      [place_id |-> "d", location |-> <<1, 1>>],
      [place_id |-> "e", location |-> <<0, 1>>] }

TourLists(n) == SeqsOfLen(TourPlaces, n)

\* how the road network answers: the same both ways, or slower westbound
Traffic == {"two_way", "one_way"}

Abs(x) == IF x < 0 THEN -x ELSE x

\* Route.distance_meters of a successful compute_route / matrix element
RoadMeters(o, d) == 700 * (Abs(o[1] - d[1]) + Abs(o[2] - d[2]))

\* Route.duration_seconds of a successful compute_route / matrix element
RoadSeconds(w, o, d) ==
    540 * Abs(o[1] - d[1]) + 660 * Abs(o[2] - d[2])
      + (IF w = "one_way" /\ d[1] < o[1] THEN 600 ELSE 0)

\* GoogleRoutesService.get_distance_matrix on success: matrices indexed
\* [origin_idx][destination_idx], 0-based
DurationMatrix(w, ps) ==
    [a \in 0..(Len(ps) - 1) |-> [b \in 0..(Len(ps) - 1) |->
        RoadSeconds(w, ps[a + 1].location, ps[b + 1].location)]]

DistanceMatrix(ps) ==
    [a \in 0..(Len(ps) - 1) |-> [b \in 0..(Len(ps) - 1) |->
        RoadMeters(ps[a + 1].location, ps[b + 1].location)]]

(***************************************************************************)
(* RouteOptimizer helpers.  A tour is a sequence of 0-based indices;       *)
(* position p of the code's list is element p + 1 of the sequence.         *)
(***************************************************************************)
OptimizationResult(ps, dist, dur) ==
    [ places |-> ps, total_distance_meters |-> dist, total_duration_seconds |-> dur ]

\* optimize_day lines 60-63: the fallback of the two-place case
PairFallback == [distance_meters |-> 1000, duration_seconds |-> 720]

\* variant of LegFallback: the constants of the two-place case
LegFallback_AsPair == [distance_meters |-> 1000, duration_seconds |-> 720]

\* _calculate_route_totals lines 91-93: the fallback of one failed leg
LegFallback == [distance_meters |-> 1000, duration_seconds |-> 600]

\* variant of MatrixFallback: the estimate counts legs instead of places
MatrixFallback_PerLeg(ps) ==
    OptimizationResult(ps, (Len(ps) - 1) * 500, (Len(ps) - 1) * 360)

\* _optimize_tsp lines 106-112: the result when the matrix fetch fails
MatrixFallback(ps) == OptimizationResult(ps, Len(ps) * 500, Len(ps) * 360)

\* variant of NearestUnvisited: only the current node counts as visited
NearestUnvisited_Revisit(m, tour, n) ==
    LET current == tour[Len(tour)]
        unvisited == (0..(n - 1)) \ {current}
    IN  CHOOSE j \in unvisited :
            \A k \in unvisited :
                m[current][j] < m[current][k] \/ (m[current][j] = m[current][k] /\ j <= k)

RECURSIVE ScanNearest_LastOfEquals(_, _, _, _, _, _)
\* variant of ScanNearest: an equal duration replaces the nearest so far
ScanNearest_LastOfEquals(m, current, visited, n, j, nearest) ==
    IF j >= n THEN nearest
    ELSE IF j \notin visited /\ (nearest = None \/ m[current][j] <= m[current][nearest])
         THEN ScanNearest_LastOfEquals(m, current, visited, n, j + 1, j)
         ELSE ScanNearest_LastOfEquals(m, current, visited, n, j + 1, nearest)

RECURSIVE ScanNearest(_, _, _, _, _, _)
\* _nearest_neighbor lines 167-170: the loop over j from j on; nearest is
\* None while nearest_dist is still infinite
ScanNearest(m, current, visited, n, j, nearest) ==
    IF j >= n THEN nearest
    ELSE IF j \notin visited /\ (nearest = None \/ m[current][j] < m[current][nearest])
         THEN ScanNearest(m, current, visited, n, j + 1, j)
         ELSE ScanNearest(m, current, visited, n, j + 1, nearest)

\* _nearest_neighbor lines 163-170: the nearest unvisited node from the last
\* node of the tour
NearestUnvisited(m, tour, n) ==
    ScanNearest(m, tour[Len(tour)], {tour[k] : k \in 1..Len(tour)}, n, 0, None)

RECURSIVE NearestNeighborFrom(_, _, _)
\* _nearest_neighbor: the while loop
NearestNeighborFrom(m, tour, n) ==
    IF Len(tour) >= n THEN tour
    ELSE NearestNeighborFrom(m, Append(tour, NearestUnvisited(m, tour, n)), n)

\* RouteOptimizer._nearest_neighbor
NearestNeighbor(m, n, start_idx) == NearestNeighborFrom(m, <<start_idx>>, n)

\* RouteOptimizer._two_opt_gain
TwoOptGain(tour, ti, tj, m) ==
    LET n == Len(tour)
        a == tour[ti + 1]
        b == tour[ti + 2]
        c == tour[tj + 1]
        d == tour[((tj + 1) % n) + 1]
    IN  (m[a][b] + m[c][d]) - (m[a][c] + m[b][d])

\* _two_opt_improve line 211: tour[i+1 : j+1] = reversed(tour[i+1 : j+1])
ReverseSegment(tour, ti, tj) ==
    [k \in 1..Len(tour) |->
        IF ti + 2 <= k /\ k <= tj + 1 THEN tour[(ti + 2) + (tj + 1) - k] ELSE tour[k]]

RECURSIVE SumLegs(_, _, _)
\* sum of m over the consecutive positions k, k+1, ... of the tour
SumLegs(tour, m, k) ==
    IF k >= Len(tour) THEN 0
    ELSE m[tour[k]][tour[k + 1]] + SumLegs(tour, m, k + 1)

\* RouteOptimizer._calculate_totals: <<total_distance, total_duration>>
CalculateTotals(order, duration_matrix, distance_matrix) ==
    << SumLegs(order, distance_matrix, 1), SumLegs(order, duration_matrix, 1) >>

\* _two_opt_improve default max_iterations
TwoOptMaxIterations == 100

(***************************************************************************)
(* Quality scorer: configuration, inputs and helpers.  Weights are kept in *)
(* hundredths (0.20 -> 20); a score is the pair <<numerator, denominator>>  *)
(* with a positive denominator, so that a quotient keeps its exact value.  *)
(***************************************************************************)
\* config/tuning.py: QUALITY_METRIC_WEIGHTS, in hundredths
QUALITY_METRIC_WEIGHTS ==
    [ meal_timing |-> 20, geographic_clustering |-> 15, travel_efficiency |-> 15,
      variety |-> 15, opening_hours |-> 15, theme_alignment |-> 10,
      duration_appropriateness |-> 10 ]

\* ItineraryScorer.__init__: the evaluators in their fixed order, each with
\* its name property and the key of its weight property
EVALUATORS ==
    << [name |-> "Meal Timing",              key |-> "meal_timing"],
       [name |-> "Geographic Clustering",    key |-> "geographic_clustering"],
       [name |-> "Travel Efficiency",        key |-> "travel_efficiency"],
       [name |-> "Variety & Diversity",      key |-> "variety"],
       [name |-> "Opening Hours",            key |-> "opening_hours"],
       [name |-> "Theme Alignment",          key |-> "theme_alignment"],
       [name |-> "Duration Appropriateness", key |-> "duration_appropriateness"] >>

EvaluatorIds == 1..Len(EVALUATORS)

\* variant of EvaluatorWeight: every evaluator weighs the same
EvaluatorWeight_Uniform(e) == 15

\* the weight property of evaluator e
EvaluatorWeight(e) == QUALITY_METRIC_WEIGHTS[EVALUATORS[e].key]

\* variant of GradeFromScore: a score has to exceed a bound to earn its grade
GradeFromScore_Strict(num, den) ==
    IF num > 95 * den THEN "A+"
    ELSE IF num > 90 * den THEN "A"
    ELSE IF num > 85 * den THEN "A-"
    ELSE IF num > 80 * den THEN "B+"
    ELSE IF num > 75 * den THEN "B"
    ELSE IF num > 70 * den THEN "B-"
    ELSE IF num > 65 * den THEN "C+"
    ELSE IF num > 60 * den THEN "C"
    ELSE IF num > 55 * den THEN "C-"
    ELSE IF num > 50 * den THEN "D"
    ELSE "F"

\* QualityGrade.from_score, for the score num / den (den > 0)
GradeFromScore(num, den) ==
    IF num >= 95 * den THEN "A+"
    ELSE IF num >= 90 * den THEN "A"
    ELSE IF num >= 85 * den THEN "A-"
    ELSE IF num >= 80 * den THEN "B+"
    ELSE IF num >= 75 * den THEN "B"
    ELSE IF num >= 70 * den THEN "B-"
    ELSE IF num >= 65 * den THEN "C+"
    ELSE IF num >= 60 * den THEN "C"
    ELSE IF num >= 55 * den THEN "C-"
    ELSE IF num >= 50 * den THEN "D"
    ELSE "F"

\* a < b and a <= b for scores
ScoreLess(a, b) == a[1] * b[2] < b[1] * a[2]
ScoreLeq(a, b) == a[1] * b[2] <= b[1] * a[2]

\* MetricResult(...) with its __post_init__ grade
MetricResult(name, score, weight, issues, suggestions) ==
    [ name |-> name, score |-> score, weight |-> weight,
      grade |-> GradeFromScore(score[1], score[2]),
      issues |-> issues, suggestions |-> suggestions ]

\* what an evaluator finds in an itinerary: a raw score with its issues and
\* suggestions (a text is a tuple: the message, then the values it embeds)
Findings ==
    { [score |-> <<100, 1>>, issues |-> <<>>, suggestions |-> <<>>],
      [score |-> <<30, 1>>,
       issues |-> << <<"issue 1">>, <<"issue 2">>, <<"issue 3">> >>,
       suggestions |-> << <<"suggestion 1">>, <<"suggestion 2">> >>] }

\* an itinerary, seen through what each evaluator finds in it
Itineraries == [findings : [EvaluatorIds -> Findings]]

Min(a, b) == IF a <= b THEN a ELSE b

\* max(0, min(100, score))
ClampScore(sc) ==
    IF ScoreLess(<<100, 1>>, sc) THEN <<100, 1>>
    ELSE IF ScoreLess(sc, <<0, 1>>) THEN <<0, 1>>
    ELSE sc

\* BaseEvaluator._create_result: the result evaluator e returns for the
\* itinerary; issues and suggestions are prefixed by the evaluator's name
EvaluatorResult(e, itin) ==
    LET f == itin.findings[e]
    IN  MetricResult(EVALUATORS[e].name,
                     ClampScore(f.score),
                     EvaluatorWeight(e),
                     [k \in 1..Len(f.issues) |-> <<EVALUATORS[e].name, f.issues[k]>>],
                     [k \in 1..Len(f.suggestions) |-> f.suggestions[k]])

\* str(e) of the exception evaluator e raises
ErrorText(e) == <<"error in", EVALUATORS[e].key>>

\* variant of ErrorResult: a failed evaluator scores 0
ErrorResult_Zero(e) ==
    MetricResult(EVALUATORS[e].name, <<0, 1>>, EvaluatorWeight(e),
                 << <<"Evaluation error: ", ErrorText(e)>> >>, <<>>)

\* evaluate lines 74-82: the result that stands in for a raising evaluator
ErrorResult(e) ==
    MetricResult(EVALUATORS[e].name, <<50, 1>>, EvaluatorWeight(e),
                 << <<"Evaluation error: ", ErrorText(e)>> >>, <<>>)

RECURSIVE SumSeq(_, _)
\* sum(xs[1..n])
SumSeq(xs, n) == IF n = 0 THEN 0 ELSE xs[n] + SumSeq(xs, n - 1)

RECURSIVE ProdSeq(_, _)
\* product of xs[1..n]
ProdSeq(xs, n) == IF n = 0 THEN 1 ELSE xs[n] * ProdSeq(xs, n - 1)

\* sum(r.score * r.weight for r in results) as <<numerator, denominator>>:
\* the terms are brought to the product of the scores' denominators
WeightedSum(results) ==
    LET dens == [k \in 1..Len(results) |-> results[k].score[2]]
        common == ProdSeq(dens, Len(dens))
        terms == [k \in 1..Len(results) |->
                     results[k].score[1] * (common \div results[k].score[2])
                        * results[k].weight]
    IN  << SumSeq(terms, Len(terms)), common >>

\* variant of CalculateOverallScore: the weights are taken to sum to 1.0
CalculateOverallScore_Unnormalised(results) ==
    LET weighted_sum == WeightedSum(results)
    IN  IF results = <<>> THEN <<0, 1>>
        ELSE << weighted_sum[1], weighted_sum[2] * 100 >>

\* ItineraryScorer._calculate_overall_score, as <<numerator, denominator>>
CalculateOverallScore(results) ==
    LET weights == [k \in 1..Len(results) |-> results[k].weight]
        total_weight == SumSeq(weights, Len(weights))
        weighted_sum == WeightedSum(results)
    IN  IF results = <<>> THEN <<0, 1>>
        ELSE IF total_weight = 0 THEN <<0, 1>>
        ELSE << weighted_sum[1], weighted_sum[2] * total_weight >>

\* ItineraryScorer._build_quality_score
BuildQualityScore(results, overall) ==
    LET name_map ==
            [k \in EvaluatorIds |-> [name |-> EVALUATORS[k].name, field |-> EVALUATORS[k].key]]
        last(fld) ==
            LET hits == {k \in 1..Len(results) :
                            \E m \in EvaluatorIds :
                                name_map[m].name = results[k].name /\ name_map[m].field = fld}
            IN  IF hits = {} THEN <<0, 1>>
                ELSE results[CHOOSE k \in hits : \A h \in hits : h <= k].score
    IN  [ meal_timing |-> last("meal_timing"),
          geographic_clustering |-> last("geographic_clustering"),
          travel_efficiency |-> last("travel_efficiency"),
          variety |-> last("variety"),
          opening_hours |-> last("opening_hours"),
          theme_alignment |-> last("theme_alignment"),
          duration_appropriateness |-> last("duration_appropriateness"),
          overall |-> overall ]

\* seq[:n]
Take(seq, n) == SubSeq(seq, 1, Min(n, Len(seq)))

RECURSIVE Concat(_, _)
\* list.extend over lists[1..n]: their concatenation
Concat(lists, n) == IF n = 0 THEN <<>> ELSE Concat(lists, n - 1) \o lists[n]

\* variant of SortedByScore: the results stay in evaluator order
SortedByScore_EvaluatorOrder(results, n) == SubSeq(results, 1, n)

RECURSIVE SortedByScore(_, _)
\* sorted(results, key=lambda r: r.score): stable, ascending; first n results
SortedByScore(results, n) ==
    IF n = 0 THEN <<>>
    ELSE LET rest == SortedByScore(results, n - 1)
             r == results[n]
             before == SelectSeq(rest, LAMBDA x : ScoreLeq(x.score, r.score))
             after == SelectSeq(rest, LAMBDA x : ScoreLess(r.score, x.score))
         IN  before \o <<r>> \o after

RECURSIVE Dedup(_, _)
\* the first occurrence of every element of the first n elements of seq
Dedup(seq, n) ==
    IF n = 0 THEN <<>>
    ELSE LET rest == Dedup(seq, n - 1)
         IN  IF \E k \in 1..Len(rest) : rest[k] = seq[n] THEN rest
             ELSE Append(rest, seq[n])

\* ItineraryScorer._prioritize_recommendations: suggestions of the results in
\* ascending score order, first occurrence kept (the closing sort by priority
\* is stable and leaves that order)
PrioritizeRecommendations(results) ==
    LET ordered == SortedByScore(results, Len(results))
        all == Concat([k \in 1..Len(ordered) |-> ordered[k].suggestions], Len(ordered))
    IN  Dedup(all, Len(all))

\* variant of QualityReport: a critical metric hands over all its issues
QualityReport_AllIssues(results) ==
    LET overall == CalculateOverallScore(results)
        all_issues == Concat([k \in 1..Len(results) |-> results[k].issues], Len(results))
        critical_issues ==
            Concat([k \in 1..Len(results) |->
                       IF ScoreLess(results[k].score, <<50, 1>>) THEN results[k].issues
                       ELSE <<>>],
                   Len(results))
    IN  [ overall_score |-> overall,
          overall_grade |-> GradeFromScore(overall[1], overall[2]),
          scores |-> BuildQualityScore(results, overall),
          metrics |-> results,
          total_issues |-> Len(all_issues),
          critical_issues |-> Take(critical_issues, 5),
          recommendations |-> Take(PrioritizeRecommendations(results), 5) ]

\* variant of QualityReport: a metric scoring exactly 50 counts as critical
QualityReport_CriticalAtFifty(results) ==
    LET overall == CalculateOverallScore(results)
        all_issues == Concat([k \in 1..Len(results) |-> results[k].issues], Len(results))
        critical_issues ==
            Concat([k \in 1..Len(results) |->
                       IF ScoreLeq(results[k].score, <<50, 1>>) THEN Take(results[k].issues, 2) ELSE <<>>],
                   Len(results))
    IN  [ overall_score |-> overall,
          overall_grade |-> GradeFromScore(overall[1], overall[2]),
          scores |-> BuildQualityScore(results, overall),
          metrics |-> results,
          total_issues |-> Len(all_issues),
          critical_issues |-> Take(critical_issues, 5),
          recommendations |-> Take(PrioritizeRecommendations(results), 5) ]

\* evaluate lines 84-121: the QualityReport built from the metric results
QualityReport(results) ==
    LET overall == CalculateOverallScore(results)
        all_issues == Concat([k \in 1..Len(results) |-> results[k].issues], Len(results))
        critical_issues ==
            Concat([k \in 1..Len(results) |->
                       IF ScoreLess(results[k].score, <<50, 1>>) THEN Take(results[k].issues, 2) ELSE <<>>],
                   Len(results))
    IN  [ overall_score |-> overall,
          overall_grade |-> GradeFromScore(overall[1], overall[2]),
          scores |-> BuildQualityScore(results, overall),
          metrics |-> results,
          total_issues |-> Len(all_issues),
          critical_issues |-> Take(critical_issues, 5),
          recommendations |-> Take(PrioritizeRecommendations(results), 5) ]

(***************************************************************************)
(* MealTimingEvaluator (evaluators/meal_timing.py).  A name is the         *)
(* sequence of its characters; a time string "HH:MM" is the pair <<HH, MM>>.*)
(***************************************************************************)
LUNCH_ACCEPTABLE == << 11 * 60, 15 * 60 + 30 >>
DINNER_ACCEPTABLE == << 17 * 60 + 30, 22 * 60 >>

DINING_CATEGORIES == {"dining", "restaurant", "cafe", "food"}

\* non_restaurant_keywords of _evaluate_day
NON_RESTAURANT_KEYWORDS ==
    { <<"t","e","m","p","l","e">>, <<"m","a","n","d","i","r">>,
      <<"m","a","s","j","i","d">>, <<"m","o","s","q","u","e">>,
      <<"c","h","u","r","c","h">>, <<"i","s","k","c","o","n">>,
      <<"m","u","s","e","u","m">>, <<"p","a","l","a","c","e">>,
      <<"f","o","r","t">>, <<"m","e","m","o","r","i","a","l">>,
      <<"g","u","r","u","d","w","a","r","a">>, <<"s","h","r","i","n","e">> }

\* str.lower() of one character, for the capitals the names use
LowerChar(c) ==
    CASE c = "E" -> "e" [] c = "F" -> "f" [] c = "L" -> "l" [] OTHER -> c

\* name.lower()
Lower(name) == [k \in 1..Len(name) |-> LowerChar(name[k])]

\* str.lower() of a category
LowerCategory(category) == IF category = "Restaurant" THEN "restaurant" ELSE category

\* kw in name_lower
Contains(name_lower, kw) ==
    \E k \in 1..(Len(name_lower) - Len(kw) + 1) :
        SubSeq(name_lower, k, k + Len(kw) - 1) = kw

\* MealTimingEvaluator._parse_time: minute of the day, None when time(...) raises
ParseTime(time_str) ==
    IF time_str[1] \in 0..23 /\ time_str[2] \in 0..59
    THEN time_str[1] * 60 + time_str[2]
    ELSE None

\* MealTimingEvaluator._in_window
InWindow(t, window) == window[1] <= t /\ t <= window[2]

\* the dining activities of a day, in order (lines 107-111)
DiningActivities(day) ==
    SelectSeq(day.activities,
              LAMBDA a : LowerCategory(a.place.category) \in DINING_CATEGORIES)

\* MealTimingEvaluator._find_meal_in_window: <<activity>>, or <<>> for None
FindMealInWindow(dining_activities, window) ==
    LET hits == {k \in 1..Len(dining_activities) :
                    /\ ParseTime(dining_activities[k].time_start) # None
                    /\ InWindow(ParseTime(dining_activities[k].time_start), window)}
    IN  IF hits = {} THEN <<>>
        ELSE << dining_activities[CHOOSE k \in hits : \A h \in hits : k <= h] >>

\* 0-based index of the first activity the test holds for, -1 when none
FirstIndex(activities, Test(_)) ==
    LET hits == {k \in 1..Len(activities) : Test(activities[k])}
    IN  IF hits = {} THEN -1 ELSE (CHOOSE k \in hits : \A h \in hits : k <= h) - 1

\* check 5 of _evaluate_day (lines 178-198) over dining_activities[1..n]
RECURSIVE Misclassification(_, _, _)
Misclassification(day, dining_activities, n) ==
    IF n = 0 THEN [passed |-> 0, issues |-> <<>>, suggestions |-> <<>>]
    ELSE LET rest == Misclassification(day, dining_activities, n - 1)
             name == dining_activities[n].place.name
             is_misclassified ==
                 \E kw \in NON_RESTAURANT_KEYWORDS : Contains(Lower(name), kw)
         IN  IF ~is_misclassified
             THEN [rest EXCEPT !.passed = @ + 1]
             ELSE [rest EXCEPT
                     !.issues = Append(@, <<"non-restaurant classified as dining",
                                            day.day_number, name>>),
                     !.suggestions = Append(@, <<"Replace with an actual restaurant",
                                                 day.day_number>>)]

\* MealTimingEvaluator._evaluate_day
EvaluateDay(day) ==
    LET n == Len(day.activities)
        dining_activities == DiningActivities(day)
        lunch == FindMealInWindow(dining_activities, LUNCH_ACCEPTABLE)
        dinner == FindMealInWindow(dining_activities, DINNER_ACCEPTABLE)
        lunch_checked == lunch # <<>> /\ n >= 3
        dinner_checked == dinner # <<>> /\ n >= 3
        lunch_idx == FirstIndex(day.activities, LAMBDA a : a = lunch[1])
        dinner_idx == FirstIndex(day.activities,
                          LAMBDA a : /\ a.time_start = dinner[1].time_start
                                     /\ a.place.name = dinner[1].place.name)
        lunch_placed == 1 <= lunch_idx /\ lunch_idx <= n - 2
        dinner_placed == dinner_idx >= n - 2
        check5 == Misclassification(day, dining_activities, Len(dining_activities))
    IN  [ total_checks |->
              2 + (IF lunch_checked THEN 1 ELSE 0) + (IF dinner_checked THEN 1 ELSE 0)
                + Len(dining_activities),
          passed_checks |->
              (IF lunch # <<>> THEN 1 ELSE 0) + (IF dinner # <<>> THEN 1 ELSE 0)
                + (IF lunch_checked /\ lunch_placed THEN 1 ELSE 0)
                + (IF dinner_checked /\ dinner_placed THEN 1 ELSE 0)
                + check5.passed,
          issues |->
              (IF lunch = <<>>
               THEN << <<"No lunch found between 11:00-15:30", day.day_number>> >>
               ELSE <<>>)
              \o (IF dinner = <<>>
                  THEN << <<"No dinner found between 17:30-22:00", day.day_number>> >>
                  ELSE <<>>)
              \o (IF lunch_checked /\ ~lunch_placed
                  THEN << <<"Lunch at position (should be mid-day)", day.day_number,
                            lunch_idx + 1>> >>
                  ELSE <<>>)
              \o (IF dinner_checked /\ ~dinner_placed
                  THEN << <<"Dinner at position (should be near end)", day.day_number,
                            dinner_idx + 1>> >>
                  ELSE <<>>)
              \o check5.issues,
          suggestions |->
              (IF lunch = <<>>
               THEN << <<"Add a lunch restaurant around 12:00-14:00", day.day_number>> >>
               ELSE <<>>)
              \o (IF dinner = <<>>
                  THEN << <<"Add a dinner restaurant around 19:00-20:30", day.day_number>> >>
                  ELSE <<>>)
              \o check5.suggestions ]

\* MealTimingEvaluator.evaluate up to the call of _create_result: the raw
\* score with the issues and suggestions of all days
MealTimingEvaluate(days) ==
    LET day_results == [k \in 1..Len(days) |-> EvaluateDay(days[k])]
        total_checks == SumSeq([k \in 1..Len(days) |-> day_results[k].total_checks],
                               Len(days))
        passed_checks == SumSeq([k \in 1..Len(days) |-> day_results[k].passed_checks],
                                Len(days))
    IN  IF days = <<>>
        THEN [ score |-> <<0, 1>>,
               issues |-> << <<"No days in itinerary">> >>,
               suggestions |-> << <<"Generate an itinerary with at least one day">> >> ]
        ELSE [ score |-> IF total_checks = 0 THEN <<0, 1>>
                         ELSE << passed_checks * 100, total_checks >>,
               issues |-> Concat([k \in 1..Len(days) |-> day_results[k].issues],
                                 Len(days)),
               suggestions |-> Concat([k \in 1..Len(days) |-> day_results[k].suggestions],
                                      Len(days)) ]

\* Activity, as far as the evaluator reads it
Activity(time_start, name, category) ==
    [ time_start |-> time_start, place |-> [name |-> name, category |-> category] ]

\* the activity lists a day may hold
DayActivities ==
    LET expo == <<"E","x","p","o">>
        luna == <<"L","u","n","a">>
        fort == <<"F","o","r","t">>
    IN  { <<>>,
          << Activity(<<10, 0>>, expo, "attraction"), Activity(<<14, 0>>, expo, "attraction") >>,
          << Activity(<<10, 0>>, expo, "attraction"), Activity(<<12, 30>>, luna, "Restaurant"),
             Activity(<<19, 0>>, luna, "restaurant") >>,
          << Activity(<<12, 30>>, luna, "restaurant"), Activity(<<14, 0>>, expo, "attraction"),
             Activity(<<19, 0>>, fort, "cafe") >>,
          << Activity(<<12, 30>>, luna, "restaurant") >>,
          << Activity(<<25, 0>>, luna, "dining") >> }

\* the day lists of an itinerary: day_number is the position of the day
DayLists(n) ==
    { [k \in 1..n |-> [day_number |-> k, activities |-> acts[k]]] :
        acts \in SeqsOfLen(DayActivities, n) }

\* itineraries given day by day: the Meal Timing evaluator finds what it
\* computes from the days, the other evaluators all find the same
DayItineraries(n) ==
    { [ days |-> ds,
        findings |-> [e \in EvaluatorIds |->
                         IF e = 1 THEN MealTimingEvaluate(ds) ELSE f[e]] ] :
        ds \in DayLists(n), f \in {[e \in EvaluatorIds |-> g] : g \in Findings} }

\* the calls of evaluate that may be in progress at once on the one scorer
Frames == {1, 2}

\* the itineraries those calls are made with: one day, nothing found by the
\* evaluators other than Meal Timing
CallItineraries == {itin \in DayItineraries(1) : itin.findings[2].issues = <<>>}

\* scores handed to from_score: 0, 0.5, 1, ... 100, as <<numerator, denominator>>
GradeScores == {<<h, 2>> : h \in 0..200}

\* metric results as the aggregation may receive them: any score of the
\* clamped range, any weight (0 included)
ResultScores == {<<0, 1>>, <<149, 3>>, <<50, 1>>, <<100, 1>>}
ResultWeights == {0, 10, 20}
ResultLists(n) ==
    SeqsOfLen({MetricResult("m", s, w, <<>>, <<>>) : s \in ResultScores, w \in ResultWeights}, n)

\* metric results that carry suggestions: three scores, suggestion lists
\* that overlap between metrics and repeat a text within one metric
SuggestionScores == {<<20, 1>>, <<60, 1>>, <<90, 1>>}
SuggestionLists ==
    { <<>>,
      << <<"add lunch">>, <<"add dinner">> >>,
      << <<"add dinner">>, <<"group nearby">>, <<"add dinner">>, <<"fewer museums">> >>,
      << <<"shorten visits">>, <<"check hours">>, <<"add lunch">> >> }
SuggestionResultLists(n) ==
    SeqsOfLen({MetricResult("m", s, 10, <<>>, sg) :
                  s \in SuggestionScores, sg \in SuggestionLists}, n)

(***************************************************************************)
(* State                                                                   *)
(***************************************************************************)
VARIABLES
    sb_pc,            \* "idle" | "loop" | "done": position in build_schedule
    places,           \* argument: ordered place list
    routes,           \* argument: routes between consecutive places
    schedule_date,    \* argument: weekday() of the date
    pace,             \* argument
    i,                \* loop index (0-based, as enumerate)
    current_time,
    has_lunch,
    has_dinner,
    num_meals,
    meals_scheduled,
    schedule,         \* the list being built / returned
    iter,             \* locals of the last loop iteration
    ro_pc,            \* "idle" | "pair" | "legs" | "matrix" | "while" | "swap" | "done"
    opt_places,       \* argument of optimize_day
    preserve_order,   \* argument of optimize_day
    traffic,          \* the road network behind the routing collaborator
    calls,            \* outcome (TRUE = returned, FALSE = raised) of each awaited call
    leg,              \* loop index of _calculate_route_totals
    total_dist,
    total_dur,
    matrix,           \* duration matrix
    dist_matrix,
    tour,
    improved,
    iterations,
    oi,               \* loop indices i, j of _two_opt_improve
    oj,
    result,           \* the OptimizationResult returned
    sc_pc,            \* "idle" | "evaluating" | "done": position in evaluate
    itinerary,        \* argument of evaluate
    faulty,           \* the evaluators that raise on this call
    ev,               \* number of evaluators run so far
    metric_results,
    report,           \* the QualityReport returned
    agg_pc,           \* "idle" | "called" | "done": aggregation of given results
    agg_results,      \* the metric results aggregated
    agg_report,       \* the QualityReport built from them
    gr_pc,            \* "idle" | "called" | "done": a call of from_score
    gr_score,         \* its argument
    gr_grade,         \* its return value
    gr_prev,          \* argument and return value of the call before
    fr_pc,            \* per frame: "idle" | "evaluating" | "done"
    fr_itinerary,     \* per frame: argument of evaluate
    fr_ev,            \* per frame: number of evaluators run so far
    fr_results,       \* per frame: metric_results
    fr_report,        \* per frame: the QualityReport returned
    bt_pc,            \* "idle" | "gather" | "done": position in compute_routes_batch
    bt_waypoints,     \* argument of compute_routes_batch
    bt_mode,          \* argument of compute_routes_batch
    bt_results,       \* per leg: the state and outcome of its compute_route task
    bt_order,         \* the legs in the order their tasks completed
    bt_routes,        \* the list returned
    first_run,        \* the first return of _two_opt_improve, once it is called again
    gen_pc,           \* "idle" | "scheduling" | "done": position in a day of generate
    travel_mode,      \* request.travel_mode
    gen_activities    \* activities of the DayPlan of generate

sbVars == << sb_pc, places, routes, schedule_date, pace, i, current_time,
             has_lunch, has_dinner, num_meals, meals_scheduled, schedule, iter >>

roVars == << ro_pc, opt_places, preserve_order, traffic, calls, leg, total_dist,
             total_dur, matrix, dist_matrix, tour, improved, iterations, oi, oj,
             result >>

scVars == << sc_pc, itinerary, faulty, ev, metric_results, report >>

agVars == << agg_pc, agg_results, agg_report >>

grVars == << gr_pc, gr_score, gr_grade, gr_prev >>

frVars == << fr_pc, fr_itinerary, fr_ev, fr_results, fr_report >>

btVars == << bt_pc, bt_waypoints, bt_mode, bt_results, bt_order, bt_routes >>

toVars == << first_run >>

gnVars == << gen_pc, travel_mode, gen_activities >>

vars == << sbVars, roVars, scVars, agVars, grVars, frVars, btVars, toVars, gnVars >>

NoIter == [ reached |-> 0, gated |-> 0, clock |-> 0, duration |-> 0,
            decision |-> "none", outcome |-> "none" ]

SbIdle ==
    /\ sb_pc = "idle"
    /\ places = <<>>
    /\ routes = <<>>
    /\ schedule_date = 0
    /\ pace = "moderate"
    /\ i = 0
    /\ current_time = 0
    /\ has_lunch = FALSE
    /\ has_dinner = FALSE
    /\ num_meals = 0
    /\ meals_scheduled = 0
    /\ schedule = <<>>
    /\ iter = NoIter

(***************************************************************************)
(* ScheduleBuilder.build_schedule                                          *)
(***************************************************************************)
\* entry of build_schedule up to the loop (lines 80-93)
BuildScheduleCall ==
    /\ sb_pc = "idle"
    /\ \E n \in 0..MaxDayPlaces :
       \E ps \in PlaceLists(n) :
       \E rs \in RouteLists(IF n = 0 THEN 0 ELSE n - 1) :
       \E d \in Weekdays :
       \E pc \in Paces :
          /\ places' = ps
          /\ routes' = rs
          /\ schedule_date' = d
          /\ pace' = pc
          /\ num_meals' = Cardinality({k \in 1..n : IsMealPlace(ps[k])})
          /\ sb_pc' = IF n = 0 THEN "done" ELSE "loop"
          /\ current_time' = IF n = 0 THEN 0 ELSE Combine(0, ScheduleConfig.day_start)
    /\ schedule' = <<>>
    /\ has_lunch' = FALSE
    /\ has_dinner' = FALSE
    /\ meals_scheduled' = 0
    /\ i' = 0
    /\ iter' = NoIter

\* one iteration of the loop over places (lines 95-180); the return at line 182
\* follows the last iteration
BuildStep ==
    /\ sb_pc = "loop"
    /\ i < Len(places)
    /\ LET place == PlaceAt(places, i)
           day_end == Combine(0, ScheduleConfig.day_end)
           duration == GetDuration(place, pace)
           adjusted_time == AdjustForOpeningHours(place, current_time, schedule_date)
           gated == IF adjusted_time # None THEN adjusted_time ELSE current_time
           is_meal == IsMealPlace(place)
           ms == IF is_meal THEN meals_scheduled + 1 ELSE meals_scheduled
           decision == MealDecision(is_meal, ms, num_meals, has_lunch, has_dinner,
                                    TimeOf(gated))
           clock == MealClock(decision, gated)
           outcome == DayEndOutcome(clock, duration, day_end)
           final_duration == IF outcome = "shrunk"
                             THEN AvailableMinutes(clock, day_end) ELSE duration
           end_time == IF outcome = "shrunk" THEN day_end ELSE clock + duration
       IN  /\ meals_scheduled' = ms
           /\ has_lunch' = (has_lunch \/ decision \in {"lunch_wait", "lunch"})
           /\ has_dinner' = (has_dinner \/ decision \in {"dinner_wait", "dinner"})
           /\ iter' = [ reached |-> current_time, gated |-> gated, clock |-> clock,
                        duration |-> duration, decision |-> decision,
                        outcome |-> outcome ]
           /\ IF outcome \in {"skip_past", "skip_short"}
              THEN /\ schedule' = schedule
                   /\ current_time' = clock
              ELSE /\ schedule' = Append(schedule,
                          [ place |-> place,
                            start_time |-> Strftime(clock),
                            end_time |-> Strftime(end_time),
                            duration_minutes |-> final_duration ])
                   /\ current_time' = NextStart(end_time, routes, i)
    /\ i' = i + 1
    /\ sb_pc' = IF i + 1 = Len(places) THEN "done" ELSE "loop"
    /\ UNCHANGED << places, routes, schedule_date, pace, num_meals >>

(***************************************************************************)
(* RouteOptimizer.optimize_day                                             *)
(***************************************************************************)
EmptyMatrix == [a \in {} |-> 0]

RoIdle ==
    /\ ro_pc = "idle"
    /\ opt_places = <<>>
    /\ preserve_order = TRUE
    /\ traffic = "two_way"
    /\ calls = <<>>
    /\ leg = 0
    /\ total_dist = 0
    /\ total_dur = 0
    /\ matrix = EmptyMatrix
    /\ dist_matrix = EmptyMatrix
    /\ tour = <<>>
    /\ improved = FALSE
    /\ iterations = 0
    /\ oi = 0
    /\ oj = 0
    /\ result = OptimizationResult(<<>>, 0, 0)

\* optimize_day up to its first await (lines 42-52, 66-67, 75, 101-105)
OptimizeDayCall ==
    /\ ro_pc = "idle"
    /\ \E n \in 0..MaxTourPlaces :
       \E ps \in TourLists(n) :
       \E po \in BOOLEAN :
       \E w \in Traffic :
          /\ opt_places' = ps
          /\ preserve_order' = po
          /\ traffic' = w
          /\ ro_pc' = IF n <= 1 THEN "done"
                      ELSE IF n = 2 THEN "pair"
                      ELSE IF po THEN "legs"
                      ELSE "matrix"
          /\ result' = OptimizationResult(IF n <= 1 THEN ps ELSE <<>>, 0, 0)
    /\ UNCHANGED << calls, leg, total_dist, total_dur, matrix, dist_matrix, tour,
                    improved, iterations, oi, oj >>

\* the two-place case: compute_route returns or raises (lines 50-63)
PairReturn ==
    /\ ro_pc = "pair"
    /\ \E ok \in BOOLEAN :
          /\ calls' = Append(calls, ok)
          /\ result' =
                IF ok
                THEN OptimizationResult(opt_places,
                         RoadMeters(opt_places[1].location, opt_places[2].location),
                         RoadSeconds(traffic, opt_places[1].location,
                                     opt_places[2].location))
                ELSE OptimizationResult(opt_places, PairFallback.distance_meters,
                                        PairFallback.duration_seconds)
    /\ ro_pc' = "done"
    /\ UNCHANGED << opt_places, preserve_order, traffic, leg, total_dist, total_dur,
                    matrix, dist_matrix, tour, improved, iterations, oi, oj >>

\* one iteration of _calculate_route_totals (lines 84-93); after the last
\* leg optimize_day returns (lines 95, 68-72)
LegReturn ==
    /\ ro_pc = "legs"
    /\ leg < Len(opt_places) - 1
    /\ \E ok \in BOOLEAN :
         LET o == opt_places[leg + 1].location
             d == opt_places[leg + 2].location
             dist == total_dist + (IF ok THEN RoadMeters(o, d)
                                   ELSE LegFallback.distance_meters)
             dur == total_dur + (IF ok THEN RoadSeconds(traffic, o, d)
                                 ELSE LegFallback.duration_seconds)
         IN  /\ calls' = Append(calls, ok)
             /\ total_dist' = dist
             /\ total_dur' = dur
             /\ IF leg + 1 = Len(opt_places) - 1
                THEN /\ ro_pc' = "done"
                     /\ result' = OptimizationResult(opt_places, dist, dur)
                ELSE /\ ro_pc' = "legs"
                     /\ result' = result
    /\ leg' = leg + 1
    /\ UNCHANGED << opt_places, preserve_order, traffic, matrix, dist_matrix, tour,
                    improved, iterations, oi, oj >>

\* _optimize_tsp: the matrix fetch returns or raises (lines 104-115, 197-199)
MatrixReturn ==
    /\ ro_pc = "matrix"
    /\ \E ok \in BOOLEAN :
          /\ calls' = Append(calls, ok)
          /\ IF ok
             THEN /\ matrix' = DurationMatrix(traffic, opt_places)
                  /\ dist_matrix' = DistanceMatrix(opt_places)
                  /\ tour' = NearestNeighbor(DurationMatrix(traffic, opt_places),
                                             Len(opt_places), 0)
                  /\ improved' = TRUE
                  /\ ro_pc' = "while"
                  /\ result' = result
             ELSE /\ result' = MatrixFallback(opt_places)
                  /\ ro_pc' = "done"
                  /\ UNCHANGED << matrix, dist_matrix, tour, improved >>
    /\ UNCHANGED << opt_places, preserve_order, traffic, leg, total_dist, total_dur,
                    iterations, oi, oj >>

\* variant of TwoOptPass: the while test lets one pass more begin
TwoOptPass_LateCap ==
    /\ ro_pc = "while"
    /\ improved /\ iterations <= TwoOptMaxIterations
    /\ improved' = FALSE
    /\ iterations' = iterations + 1
    /\ oi' = 0
    /\ oj' = 2
    /\ ro_pc' = "swap"
    /\ UNCHANGED << opt_places, preserve_order, traffic, calls, leg, total_dist,
                    total_dur, matrix, dist_matrix, tour, result >>

\* _two_opt_improve: the while test holds and a pass begins (lines 201-206)
TwoOptPass ==
    /\ ro_pc = "while"
    /\ improved /\ iterations < TwoOptMaxIterations
    /\ improved' = FALSE
    /\ iterations' = iterations + 1
    /\ oi' = 0
    /\ oj' = 2
    /\ ro_pc' = "swap"
    /\ UNCHANGED << opt_places, preserve_order, traffic, calls, leg, total_dist,
                    total_dur, matrix, dist_matrix, tour, result >>

\* variant of TwoOptSwap: an accepted swap leaves the improved flag alone
TwoOptSwap_FlagNotSet ==
    /\ ro_pc = "swap"
    /\ LET n == Len(tour)
           gain == TwoOptGain(tour, oi, oj, matrix)
       IN  /\ IF gain > 0
              THEN /\ tour' = ReverseSegment(tour, oi, oj)
                   /\ improved' = improved
              ELSE UNCHANGED << tour, improved >>
           /\ IF oj + 1 < n
              THEN /\ oi' = oi
                   /\ oj' = oj + 1
                   /\ ro_pc' = "swap"
              ELSE IF oi + 3 < n
              THEN /\ oi' = oi + 1
                   /\ oj' = oi + 3
                   /\ ro_pc' = "swap"
              ELSE /\ UNCHANGED << oi, oj >>
                   /\ ro_pc' = "while"
    /\ UNCHANGED << opt_places, preserve_order, traffic, calls, leg, total_dist,
                    total_dur, matrix, dist_matrix, iterations, result >>

\* _two_opt_improve: the body of the inner loop for one pair i, j (lines 207-212)
TwoOptSwap ==
    /\ ro_pc = "swap"
    /\ LET n == Len(tour)
           gain == TwoOptGain(tour, oi, oj, matrix)
       IN  /\ IF gain > 0
              THEN /\ tour' = ReverseSegment(tour, oi, oj)
                   /\ improved' = TRUE
              ELSE UNCHANGED << tour, improved >>
           /\ IF oj + 1 < n
              THEN /\ oi' = oi
                   /\ oj' = oj + 1
                   /\ ro_pc' = "swap"
              ELSE IF oi + 3 < n
              THEN /\ oi' = oi + 1
                   /\ oj' = oi + 3
                   /\ ro_pc' = "swap"
              ELSE /\ UNCHANGED << oi, oj >>
                   /\ ro_pc' = "while"
    /\ UNCHANGED << opt_places, preserve_order, traffic, calls, leg, total_dist,
                    total_dur, matrix, dist_matrix, iterations, result >>

\* _two_opt_improve returns and _optimize_tsp builds the result (lines 214-215,
\* 119-126)
TwoOptReturn ==
    /\ ro_pc = "while"
    /\ ~(improved /\ iterations < TwoOptMaxIterations)
    /\ LET totals == CalculateTotals(tour, matrix, dist_matrix)
       IN  result' = OptimizationResult([k \in 1..Len(tour) |-> opt_places[tour[k] + 1]],
                                       totals[1], totals[2])
    /\ ro_pc' = "done"
    /\ UNCHANGED << opt_places, preserve_order, traffic, calls, leg, total_dist,
                    total_dur, matrix, dist_matrix, tour, improved, iterations, oi, oj >>

(***************************************************************************)
(* ItineraryScorer.evaluate                                                *)
(***************************************************************************)
NoItinerary == [findings |-> <<>>]

ScIdle ==
    /\ sc_pc = "idle"
    /\ itinerary = NoItinerary
    /\ faulty = {}
    /\ ev = 0
    /\ metric_results = <<>>
    /\ report = QualityReport(<<>>)

\* evaluate is called (lines 64-67)
EvaluateCall ==
    /\ sc_pc = "idle"
    /\ \E itin \in Itineraries : itinerary' = itin
    /\ \E bad \in SUBSET EvaluatorIds : faulty' = bad
    /\ ev' = 0
    /\ metric_results' = <<>>
    /\ sc_pc' = "evaluating"
    /\ UNCHANGED report

\* evaluate is called with an itinerary given day by day; the Meal Timing
\* evaluator may be the one that raises
EvaluateDaysCall ==
    /\ sc_pc = "idle"
    /\ \E n \in 0..MaxItineraryDays : \E itin \in DayItineraries(n) : itinerary' = itin
    /\ \E bad \in SUBSET {1} : faulty' = bad
    /\ ev' = 0
    /\ metric_results' = <<>>
    /\ sc_pc' = "evaluating"
    /\ UNCHANGED report

\* one iteration of the loop over the evaluators (lines 69-82)
EvaluatorStep ==
    /\ sc_pc = "evaluating"
    /\ ev < Len(EVALUATORS)
    /\ metric_results' =
          Append(metric_results,
                 IF (ev + 1) \in faulty THEN ErrorResult(ev + 1)
                 ELSE EvaluatorResult(ev + 1, itinerary))
    /\ ev' = ev + 1
    /\ UNCHANGED << sc_pc, itinerary, faulty, report >>

\* the report is aggregated and returned (lines 84-128)
ReportReturn ==
    /\ sc_pc = "evaluating"
    /\ ev = Len(EVALUATORS)
    /\ report' = QualityReport(metric_results)
    /\ sc_pc' = "done"
    /\ UNCHANGED << itinerary, faulty, ev, metric_results >>

(***************************************************************************)
(* The aggregation of evaluate (lines 84-121) applied to given results     *)
(***************************************************************************)
AgIdle ==
    /\ agg_pc = "idle"
    /\ agg_results = <<>>
    /\ agg_report = QualityReport(<<>>)

\* the loop over the evaluators has left metric_results (line 84 is next)
AggregateCall ==
    /\ agg_pc = "idle"
    /\ \E n \in 0..MaxResults : \E rs \in ResultLists(n) : agg_results' = rs
    /\ agg_pc' = "called"
    /\ UNCHANGED agg_report

\* the loop over the evaluators has left metric_results whose results carry
\* suggestions (line 84 is next)
AggregateSuggestionsCall ==
    /\ agg_pc = "idle"
    /\ \E n \in 0..MaxResults : \E rs \in SuggestionResultLists(n) : agg_results' = rs
    /\ agg_pc' = "called"
    /\ UNCHANGED agg_report

\* lines 84-121, 128: the report is built and returned
AggregateReturn ==
    /\ agg_pc = "called"
    /\ agg_report' = QualityReport(agg_results)
    /\ agg_pc' = "done"
    /\ UNCHANGED agg_results

(***************************************************************************)
(* QualityGrade.from_score, called again and again                         *)
(***************************************************************************)
GrIdle ==
    /\ gr_pc = "idle"
    /\ gr_score = <<0, 1>>
    /\ gr_grade = "F"
    /\ gr_prev = [score |-> <<0, 1>>, grade |-> "F"]

\* from_score is called; the call before, if any, is remembered
FromScoreCall ==
    /\ gr_pc \in {"idle", "done"}
    /\ \E sc \in GradeScores : gr_score' = sc
    /\ gr_prev' = IF gr_pc = "done" THEN [score |-> gr_score, grade |-> gr_grade]
                  ELSE gr_prev
    /\ gr_pc' = "called"
    /\ UNCHANGED gr_grade

\* from_score returns
FromScoreReturn ==
    /\ gr_pc = "called"
    /\ gr_grade' = GradeFromScore(gr_score[1], gr_score[2])
    /\ gr_pc' = "done"
    /\ UNCHANGED << gr_score, gr_prev >>

(***************************************************************************)
(* Calls of evaluate on one ItineraryScorer, one after another and          *)
(* interleaved: each frame holds the locals of one call                     *)
(***************************************************************************)
FrIdle ==
    /\ fr_pc = [f \in Frames |-> "idle"]
    /\ fr_itinerary = [f \in Frames |-> NoItinerary]
    /\ fr_ev = [f \in Frames |-> 0]
    /\ fr_results = [f \in Frames |-> <<>>]
    /\ fr_report = [f \in Frames |-> QualityReport(<<>>)]

\* variant of CallEvaluate: metric_results is kept on the scorer, so a call
\* starts from what the other call has collected
CallEvaluate_SharedResults(f) ==
    /\ fr_pc[f] \in {"idle", "done"}
    /\ \E itin \in CallItineraries : fr_itinerary' = [fr_itinerary EXCEPT ![f] = itin]
    /\ fr_ev' = [fr_ev EXCEPT ![f] = 0]
    /\ fr_results' = [fr_results EXCEPT ![f] = fr_results[3 - f]]
    /\ fr_report' = [fr_report EXCEPT ![f] = QualityReport(<<>>)]
    /\ fr_pc' = [fr_pc EXCEPT ![f] = "evaluating"]

\* evaluate is called in frame f, for the first time or again (lines 54-67)
CallEvaluate(f) ==
    /\ fr_pc[f] \in {"idle", "done"}
    /\ \E itin \in CallItineraries : fr_itinerary' = [fr_itinerary EXCEPT ![f] = itin]
    /\ fr_ev' = [fr_ev EXCEPT ![f] = 0]
    /\ fr_results' = [fr_results EXCEPT ![f] = <<>>]
    /\ fr_report' = [fr_report EXCEPT ![f] = QualityReport(<<>>)]
    /\ fr_pc' = [fr_pc EXCEPT ![f] = "evaluating"]

\* one iteration of the loop over the evaluators in frame f (lines 69-72)
StepEvaluate(f) ==
    /\ fr_pc[f] = "evaluating"
    /\ fr_ev[f] < Len(EVALUATORS)
    /\ fr_results' = [fr_results EXCEPT
                         ![f] = Append(@, EvaluatorResult(fr_ev[f] + 1, fr_itinerary[f]))]
    /\ fr_ev' = [fr_ev EXCEPT ![f] = @ + 1]
    /\ UNCHANGED << fr_pc, fr_itinerary, fr_report >>

\* the report of frame f is aggregated and returned (lines 84-128)
ReturnEvaluate(f) ==
    /\ fr_pc[f] = "evaluating"
    /\ fr_ev[f] = Len(EVALUATORS)
    /\ fr_report' = [fr_report EXCEPT ![f] = QualityReport(fr_results[f])]
    /\ fr_pc' = [fr_pc EXCEPT ![f] = "done"]
    /\ UNCHANGED << fr_itinerary, fr_ev, fr_results >>

(***************************************************************************)
(* GoogleRoutesService.compute_routes_batch                                *)
(***************************************************************************)
\* waypoints lie on a line, one location per position
Locations == 1..3

TravelModes == {"WALK", "DRIVE"}

FALLBACK_DISTANCE_METERS == 1000

FALLBACK_DURATION_SECONDS == 720

Distance(o, d) == IF o < d THEN d - o ELSE o - d

\* the Route compute_route returns when the service answers (lines 145-167):
\* the service's distance, duration and polyline for this origin, destination
\* and mode
ComputeRoute(o, d, mode) ==
    [ distance_meters  |-> 400 * Distance(o, d),
      duration_seconds |-> IF mode = "WALK" THEN 300 * Distance(o, d)
                                            ELSE 60 * Distance(o, d),
      travel_mode      |-> mode,
      polyline         |-> << o, d >> ]

\* the Route appended for a leg whose task raised (lines 207-213)
FallbackRoute(mode) ==
    [ distance_meters  |-> FALLBACK_DISTANCE_METERS,
      duration_seconds |-> FALLBACK_DURATION_SECONDS,
      travel_mode      |-> mode,
      polyline         |-> <<>> ]

\* a task of gather: not finished, finished with a Route, or finished with
\* an exception
PendingTask == [ state |-> "pending", route |-> FallbackRoute("WALK") ]

ReturnedTask(route) == [ state |-> "returned", route |-> route ]

RaisedTask == [ state |-> "raised", route |-> FallbackRoute("WALK") ]

BtIdle ==
    /\ bt_pc = "idle"
    /\ bt_waypoints = <<>>
    /\ bt_mode = "WALK"
    /\ bt_results = <<>>
    /\ bt_order = <<>>
    /\ bt_routes = <<>>

\* compute_routes_batch up to its await (lines 184-198): one task per
\* consecutive pair of waypoints
BatchCall ==
    /\ bt_pc = "idle"
    /\ \E n \in 0..MaxWaypoints :
       \E ws \in SeqsOfLen(Locations, n) :
       \E mode \in TravelModes :
          /\ bt_waypoints' = ws
          /\ bt_mode' = mode
          /\ IF n < 2
                THEN /\ bt_pc' = "done"
                     /\ bt_results' = <<>>
                ELSE /\ bt_pc' = "gather"
                     /\ bt_results' = [k \in 1..(n - 1) |-> PendingTask]
    /\ UNCHANGED << bt_order, bt_routes >>

\* the task of leg k completes, after whatever other tasks completed before
\* it: compute_route returns (line 161) or raises (lines 138, 143); gather
\* keeps the outcome at the task's position (line 198)
RouteTaskDone(k) ==
    /\ bt_pc = "gather"
    /\ k \in 1..Len(bt_results)
    /\ bt_results[k].state = "pending"
    /\ \E ok \in BOOLEAN :
          bt_results' = [bt_results EXCEPT
              ![k] = IF ok THEN ReturnedTask(ComputeRoute(bt_waypoints[k],
                                                          bt_waypoints[k + 1],
                                                          bt_mode))
                           ELSE RaisedTask]
    /\ bt_order' = Append(bt_order, k)
    /\ UNCHANGED << bt_pc, bt_waypoints, bt_mode, bt_routes >>

\* variant of BatchReturn: the routes are collected as the tasks complete
BatchReturn_AsCompleted ==
    /\ bt_pc = "gather"
    /\ \A k \in 1..Len(bt_results) : bt_results[k].state # "pending"
    /\ bt_routes' = [p \in 1..Len(bt_order) |->
                        IF bt_results[bt_order[p]].state = "raised"
                            THEN FallbackRoute(bt_mode)
                            ELSE bt_results[bt_order[p]].route]
    /\ bt_pc' = "done"
    /\ UNCHANGED << bt_waypoints, bt_mode, bt_results, bt_order >>

\* gather has every outcome; the loop over the results builds the list
\* returned (lines 201-218)
BatchReturn ==
    /\ bt_pc = "gather"
    /\ \A k \in 1..Len(bt_results) : bt_results[k].state # "pending"
    /\ bt_routes' = [k \in 1..Len(bt_results) |->
                        IF bt_results[k].state = "raised"
                            THEN FallbackRoute(bt_mode)
                            ELSE bt_results[k].route]
    /\ bt_pc' = "done"
    /\ UNCHANGED << bt_waypoints, bt_mode, bt_results, bt_order >>

(***************************************************************************)
(* _optimize_tsp on whatever matrix the routing service answers, and       *)
(* _two_opt_improve called again on the tour it returned                   *)
(***************************************************************************)
\* the four places of the call
TspPlaces ==
    << [place_id |-> "a", location |-> <<0, 0>>],
       [place_id |-> "b", location |-> <<2, 0>>],
       [place_id |-> "c", location |-> <<1, 0>>],
       [place_id |-> "d", location |-> <<1, 1>>] >>

\* the places 0 and 1 are neighbours
Neighbours(a, b) == {a, b} = {0, 1}

\* the legs between places that are not neighbours, each direction on its own
CrossLegs == { l \in (0..3) \X (0..3) : l[1] # l[2] /\ ~Neighbours(l[1], l[2]) }

\* the duration matrices get_distance_matrix may answer for the four places:
\* nothing from a place to itself, 1 between neighbours, and anything in
\* 1..MaxLegSeconds for each of the other legs
ServiceMatrices ==
    { [a \in 0..3 |-> [b \in 0..3 |->
          IF a = b THEN 0 ELSE IF Neighbours(a, b) THEN 1 ELSE f[<< a, b >>]]] :
      f \in [CrossLegs -> 1..MaxLegSeconds] }

Symmetric(m) == \A a, b \in DOMAIN m : m[a][b] = m[b][a]

NoRun == [ returned |-> FALSE, tour |-> <<>>, converged |-> FALSE ]

ToIdle == first_run = NoRun

\* the answers in which the places 2 and 3 are neighbours as well
PairedMatrices == { m \in ServiceMatrices : m[2][3] = 1 /\ m[3][2] = 1 }

\* optimize_day with four places and preserve_order False, up to the while
\* loop of _two_opt_improve (lines 42, 66, 75, 101-105, 115-116, 197-199):
\* the service answers some matrix of ms
TspCallFrom(ms) ==
    /\ ro_pc = "idle"
    /\ \E m \in ms :
          /\ matrix' = m
          /\ dist_matrix' = m
          /\ tour' = NearestNeighbor(m, Len(TspPlaces), 0)
    /\ opt_places' = TspPlaces
    /\ preserve_order' = FALSE
    /\ calls' = << TRUE >>
    /\ improved' = TRUE
    /\ iterations' = 0
    /\ ro_pc' = "while"
    /\ UNCHANGED << traffic, leg, total_dist, total_dur, oi, oj, result >>
    /\ UNCHANGED first_run

TspCall == TspCallFrom(ServiceMatrices)

TspCallPaired == TspCallFrom(PairedMatrices)

\* _two_opt_improve is called again with the tour it returned and the same
\* matrix (lines 197-199)
TwoOptAgain ==
    /\ ro_pc = "done"
    /\ ~first_run.returned
    /\ first_run' = [ returned |-> TRUE, tour |-> tour, converged |-> ~improved ]
    /\ improved' = TRUE
    /\ iterations' = 0
    /\ ro_pc' = "while"
    /\ UNCHANGED << opt_places, preserve_order, traffic, calls, leg, total_dist,
                    total_dur, matrix, dist_matrix, tour, oi, oj, result >>

(***************************************************************************)
(* FastItineraryGenerator.generate, one day of the loop (lines 198-274)    *)
(***************************************************************************)
\* route_to_next = None
NoRoute ==
    [ distance_meters |-> None, duration_seconds |-> None,
      travel_mode |-> "none", polyline |-> <<>> ]

\* the places of a day as optimize_day returns them: a place list, each place
\* with its location
LocatedPlaceLists(n) ==
    { [k \in 1..n |-> [ place_id |-> ps[k].place_id,
                        types |-> ps[k].types,
                        suggested_duration_minutes |-> ps[k].suggested_duration_minutes,
                        opening_hours |-> ps[k].opening_hours,
                        location |-> ls[k] ]] :
      ps \in PlaceLists(n), ls \in SeqsOfLen(Locations, n) }

\* compute_routes_batch when every leg is answered: the route of each pair of
\* consecutive waypoints
RoutesBatch(waypoints, mode) ==
    [k \in 1..(Len(waypoints) - 1) |-> ComputeRoute(waypoints[k], waypoints[k + 1], mode)]

\* _candidate_to_place: the Place keeps the candidate's place_id and location
CandidateToPlace(candidate) ==
    [ place_id |-> candidate.place_id, location |-> candidate.location ]

GnIdle ==
    /\ gen_pc = "idle"
    /\ travel_mode = "WALK"
    /\ gen_activities = <<>>

\* lines 212-246: the day's places are there, the routes between consecutive
\* places are computed and build_schedule is entered with both
GenerateDayCall ==
    /\ gen_pc = "idle"
    /\ sb_pc = "idle"
    /\ \E n \in 1..MaxDayPlaces :
       \E optimized_places \in LocatedPlaceLists(n) :
       \E mode \in TravelModes :
       \E d \in Weekdays :
       \E pc \in Paces :
          /\ travel_mode' = mode
          /\ places' = optimized_places
          /\ routes' = RoutesBatch([k \in 1..n |-> optimized_places[k].location], mode)
          /\ schedule_date' = d
          /\ pace' = pc
          /\ num_meals' = Cardinality({k \in 1..n : IsMealPlace(optimized_places[k])})
    /\ current_time' = Combine(0, ScheduleConfig.day_start)
    /\ sb_pc' = "loop"
    /\ schedule' = <<>>
    /\ has_lunch' = FALSE
    /\ has_dinner' = FALSE
    /\ meals_scheduled' = 0
    /\ i' = 0
    /\ iter' = NoIter
    /\ gen_pc' = "scheduling"
    /\ UNCHANGED gen_activities

\* lines 248-274: build_schedule has returned; the scheduled items become the
\* activities of the DayPlan, item i with routes[i] where there is one
AssembleDay ==
    /\ gen_pc = "scheduling"
    /\ sb_pc = "done"
    /\ gen_activities' =
          [k \in 1..Len(schedule) |->
              [ time_start |-> schedule[k].start_time,
                time_end |-> schedule[k].end_time,
                duration_minutes |-> schedule[k].duration_minutes,
                place |-> CandidateToPlace(schedule[k].place),
                route_to_next |-> IF k - 1 < Len(routes) THEN routes[k] ELSE NoRoute ]]
    /\ gen_pc' = "done"
    /\ UNCHANGED travel_mode

(***************************************************************************)
(* Specifications                                                          *)
(***************************************************************************)
Init == SbIdle /\ RoIdle /\ ScIdle /\ AgIdle /\ GrIdle /\ FrIdle /\ BtIdle /\ ToIdle /\ GnIdle

NextSchedule ==
    \/ BuildScheduleCall /\ UNCHANGED << roVars, scVars, agVars, grVars, frVars, btVars, toVars, gnVars >>
    \/ BuildStep /\ UNCHANGED << roVars, scVars, agVars, grVars, frVars, btVars, toVars, gnVars >>

\* build_schedule on its own
SpecSchedule == Init /\ [][NextSchedule]_vars

NextRoute ==
    \/ OptimizeDayCall /\ UNCHANGED << sbVars, scVars, agVars, grVars, frVars, btVars, toVars, gnVars >>
    \/ PairReturn /\ UNCHANGED << sbVars, scVars, agVars, grVars, frVars, btVars, toVars, gnVars >>
    \/ LegReturn /\ UNCHANGED << sbVars, scVars, agVars, grVars, frVars, btVars, toVars, gnVars >>
    \/ MatrixReturn /\ UNCHANGED << sbVars, scVars, agVars, grVars, frVars, btVars, toVars, gnVars >>
    \/ TwoOptPass /\ UNCHANGED << sbVars, scVars, agVars, grVars, frVars, btVars, toVars, gnVars >>
    \/ TwoOptSwap /\ UNCHANGED << sbVars, scVars, agVars, grVars, frVars, btVars, toVars, gnVars >>
    \/ TwoOptReturn /\ UNCHANGED << sbVars, scVars, agVars, grVars, frVars, btVars, toVars, gnVars >>

\* optimize_day on its own
SpecRoute == Init /\ [][NextRoute]_vars

NextScorer ==
    \/ EvaluateCall /\ UNCHANGED << sbVars, roVars, agVars, grVars, frVars, btVars, toVars, gnVars >>
    \/ EvaluatorStep /\ UNCHANGED << sbVars, roVars, agVars, grVars, frVars, btVars, toVars, gnVars >>
    \/ ReportReturn /\ UNCHANGED << sbVars, roVars, agVars, grVars, frVars, btVars, toVars, gnVars >>

\* evaluate on its own
SpecScorer == Init /\ [][NextScorer]_vars

NextMealTiming ==
    \/ EvaluateDaysCall /\ UNCHANGED << sbVars, roVars, agVars, grVars, frVars, btVars, toVars, gnVars >>
    \/ EvaluatorStep /\ UNCHANGED << sbVars, roVars, agVars, grVars, frVars, btVars, toVars, gnVars >>
    \/ ReportReturn /\ UNCHANGED << sbVars, roVars, agVars, grVars, frVars, btVars, toVars, gnVars >>

\* evaluate on itineraries given day by day
SpecMealTiming == Init /\ [][NextMealTiming]_vars

NextCalls ==
    \/ \E f \in Frames : CallEvaluate(f) /\ UNCHANGED << sbVars, roVars, scVars, agVars, grVars, btVars, toVars, gnVars >>
    \/ \E f \in Frames : StepEvaluate(f) /\ UNCHANGED << sbVars, roVars, scVars, agVars, grVars, btVars, toVars, gnVars >>
    \/ \E f \in Frames : ReturnEvaluate(f) /\ UNCHANGED << sbVars, roVars, scVars, agVars, grVars, btVars, toVars, gnVars >>

\* calls of evaluate on one scorer, repeated and interleaved
SpecCalls == Init /\ [][NextCalls]_vars

NextAggregate ==
    \/ AggregateCall /\ UNCHANGED << sbVars, roVars, scVars, grVars, frVars, btVars, toVars, gnVars >>
    \/ AggregateSuggestionsCall /\ UNCHANGED << sbVars, roVars, scVars, grVars, frVars, btVars, toVars, gnVars >>
    \/ AggregateReturn /\ UNCHANGED << sbVars, roVars, scVars, grVars, frVars, btVars, toVars, gnVars >>

\* the report aggregation on its own
SpecAggregate == Init /\ [][NextAggregate]_vars

NextBatch ==
    \/ BatchCall /\ UNCHANGED << sbVars, roVars, scVars, agVars, grVars, frVars, toVars, gnVars >>
    \/ \E k \in 1..(MaxWaypoints - 1) :
          RouteTaskDone(k) /\ UNCHANGED << sbVars, roVars, scVars, agVars, grVars, frVars, toVars, gnVars >>
    \/ BatchReturn /\ UNCHANGED << sbVars, roVars, scVars, agVars, grVars, frVars, toVars, gnVars >>

\* compute_routes_batch on its own
SpecBatch == Init /\ [][NextBatch]_vars

NextTsp ==
    \/ TspCall /\ UNCHANGED << sbVars, scVars, agVars, grVars, frVars, btVars, gnVars >>
    \/ TwoOptPass /\ UNCHANGED << sbVars, scVars, agVars, grVars, frVars, btVars, toVars, gnVars >>
    \/ TwoOptSwap /\ UNCHANGED << sbVars, scVars, agVars, grVars, frVars, btVars, toVars, gnVars >>
    \/ TwoOptReturn /\ UNCHANGED << sbVars, scVars, agVars, grVars, frVars, btVars, toVars, gnVars >>
    \/ TwoOptAgain /\ UNCHANGED << sbVars, scVars, agVars, grVars, frVars, btVars, gnVars >>

\* _optimize_tsp on any answer of the service, then _two_opt_improve again
SpecTsp == Init /\ [][NextTsp]_vars

NextTspPaired ==
    \/ TspCallPaired /\ UNCHANGED << sbVars, scVars, agVars, grVars, frVars, btVars, gnVars >>
    \/ TwoOptPass /\ UNCHANGED << sbVars, scVars, agVars, grVars, frVars, btVars, toVars, gnVars >>
    \/ TwoOptSwap /\ UNCHANGED << sbVars, scVars, agVars, grVars, frVars, btVars, toVars, gnVars >>
    \/ TwoOptReturn /\ UNCHANGED << sbVars, scVars, agVars, grVars, frVars, btVars, toVars, gnVars >>

\* the steps of _two_opt_improve and the return of _optimize_tsp
TwoOptRun ==
    /\ TwoOptPass \/ TwoOptSwap \/ TwoOptReturn
    /\ UNCHANGED << sbVars, scVars, agVars, grVars, frVars, btVars, toVars, gnVars >>

\* _optimize_tsp run to its return: the coroutine awaits nothing between the
\* matrix and the return, so a step of the run that can be taken is taken
SpecTspFair == Init /\ [][NextTspPaired]_vars /\ WF_vars(TwoOptRun)

NextGrade ==
    \/ FromScoreCall /\ UNCHANGED << sbVars, roVars, scVars, agVars, frVars, btVars, toVars, gnVars >>
    \/ FromScoreReturn /\ UNCHANGED << sbVars, roVars, scVars, agVars, frVars, btVars, toVars, gnVars >>

\* from_score on its own
SpecGrade == Init /\ [][NextGrade]_vars

NextGenerate ==
    \/ GenerateDayCall /\ UNCHANGED << roVars, scVars, agVars, grVars, frVars, btVars, toVars >>
    \/ BuildStep /\ UNCHANGED << roVars, scVars, agVars, grVars, frVars, btVars, toVars, gnVars >>
    \/ AssembleDay /\ UNCHANGED << sbVars, roVars, scVars, agVars, grVars, frVars, btVars, toVars >>

\* one day of FastItineraryGenerator.generate
SpecGenerate == Init /\ [][NextGenerate]_vars

(***************************************************************************)
(* Properties of build_schedule                                            *)
(***************************************************************************)
DayStart == ScheduleConfig.day_start
DayEnd == ScheduleConfig.day_end

LastActivity == schedule[Len(schedule)]

\* the place handled by the last loop iteration
IterPlace == places[i]

\* C1: the activities of a schedule have non-decreasing start times and no two
\* consecutive activities overlap: end_time[k] <= start_time[k+1].
C1_NonOverlapping ==
    \A k \in 1..(Len(schedule) - 1) :
        /\ ParseTimeStr(schedule[k].start_time) <= ParseTimeStr(schedule[k + 1].start_time)
        /\ ParseTimeStr(schedule[k].end_time) <= ParseTimeStr(schedule[k + 1].start_time)

\* C2: every activity's start_time and end_time lie within [day_start, day_end].
C2_WithinDay ==
    \A k \in 1..Len(schedule) :
        /\ DayStart <= ParseTimeStr(schedule[k].start_time)
        /\ ParseTimeStr(schedule[k].start_time) <= DayEnd
        /\ DayStart <= ParseTimeStr(schedule[k].end_time)
        /\ ParseTimeStr(schedule[k].end_time) <= DayEnd

\* a finished schedule with a lunch moved to its target and an activity that
\* was cut to end at day_end
C2_Witness ==
    /\ sb_pc = "done"
    /\ \E k \in 1..Len(schedule) :
          schedule[k].start_time = Strftime(ScheduleConfig.lunch_target)
    /\ \E k \in 1..Len(schedule) :
          /\ schedule[k].end_time = Strftime(DayEnd)
          /\ schedule[k].duration_minutes < GetDuration(schedule[k].place, pace)

\* C6 as stated: a single place, any pace, gives exactly one activity and it
\* starts at day_start.
C6_SinglePlaceAtDayStart ==
    (sb_pc = "done" /\ Len(places) = 1)
        => (Len(schedule) = 1 /\ schedule[1].start_time = Strftime(DayStart))

\* no entry of the place's hours for the weekday of schedule_date opens after
\* day_start
OpensByDayStart(place) ==
    \A k \in 1..Len(place.opening_hours) :
        place.opening_hours[k].day = (schedule_date + 1) % 7
            => ParseTimeStr(place.opening_hours[k].open_time) <= DayStart

\* C6 amended: a single place that is not a dining place and whose hours for
\* the weekday (if any) do not open after day_start gives exactly one activity,
\* starting at day_start, for any pace.
C6_SinglePlainPlaceAtDayStart ==
    (sb_pc = "done" /\ Len(places) = 1 /\ ~IsMealPlace(places[1])
        /\ OpensByDayStart(places[1]))
        => (Len(schedule) = 1 /\ schedule[1].start_time = Strftime(DayStart))

\* a single non-dining place that publishes hours, none for that weekday
C6_Witness ==
    /\ sb_pc = "done"
    /\ Len(places) = 1
    /\ ~IsMealPlace(places[1])
    /\ places[1].opening_hours # <<>>
    /\ OpensByDayStart(places[1])
    /\ Len(schedule) = 1

\* C7: when the first dining place of the day is reached with the clock (after
\* opening-hours gating) earlier than the lunch-window start, it is scheduled
\* to start exactly at the lunch target.
C7_FirstMealAtLunchTarget ==
    ( /\ sb_pc # "idle"
      /\ i >= 1
      /\ IsMealPlace(IterPlace)
      /\ \A k \in 1..(i - 1) : ~IsMealPlace(places[k])
      /\ TimeOf(iter.gated) < ScheduleConfig.lunch_window_start )
        => ( /\ schedule # <<>>
             /\ LastActivity.place = IterPlace
             /\ LastActivity.start_time = Strftime(ScheduleConfig.lunch_target) )

\* the first dining place is reached after another activity, before noon
C7_Witness ==
    /\ i >= 2
    /\ IsMealPlace(IterPlace)
    /\ \A k \in 1..(i - 1) : ~IsMealPlace(places[k])
    /\ iter.gated > DayStart
    /\ iter.gated < ScheduleConfig.lunch_window_start
    /\ Len(schedule) = 2
    /\ LastActivity.start_time = Strftime(ScheduleConfig.lunch_target)

\* C8: day-end clipping, with end = clock + duration: end <= day_end schedules
\* the activity in full; else a clock at or past day_end drops the place; else
\* a remaining window of at least min_activity_duration schedules it with
\* duration = day_end - clock and end_time = day_end; else the place is
\* dropped and the list is shorter than the input.
C8_DayEndPolicy ==
    [][ (sb_pc = "loop" /\ i' = i + 1) =>
        LET clock == iter'.clock
            duration == iter'.duration
            place == places[i + 1]
            entry(e, d) == [ place |-> place, start_time |-> Strftime(clock),
                             end_time |-> Strftime(e), duration_minutes |-> d ]
        IN  IF clock + duration <= DayEnd
            THEN schedule' = Append(schedule, entry(clock + duration, duration))
            ELSE IF clock >= DayEnd
            THEN schedule' = schedule
            ELSE IF DayEnd - clock >= SCHEDULING.min_activity_duration
            THEN schedule' = Append(schedule, entry(DayEnd, DayEnd - clock))
            ELSE schedule' = schedule /\ Len(schedule') < i'
      ]_vars

\* a place is dropped because less than the minimum duration is left, after
\* an earlier place was scheduled
C8_Witness ==
    /\ iter.outcome = "skip_short"
    /\ iter.clock < DayEnd
    /\ DayEnd - iter.clock < SCHEDULING.min_activity_duration
    /\ Len(schedule) >= 1
    /\ Len(schedule) < i

\* C9: the places of the schedule are an order-preserving subsequence of the
\* input places (place_id is the position in the input): each at most once,
\* relative order kept, never longer than the input; the pass ends only after
\* every place was visited.
C9_OrderPreservingSubsequence ==
    /\ Len(schedule) <= i
    /\ i <= Len(places)
    /\ (sb_pc = "done" => i = Len(places))
    /\ \A k \in 1..Len(schedule) :
          /\ schedule[k].place.place_id \in 1..i
          /\ schedule[k].place = places[schedule[k].place.place_id]
    /\ \A k \in 1..(Len(schedule) - 1) :
          schedule[k].place.place_id < schedule[k + 1].place.place_id

\* the middle place of three was dropped and the last one scheduled
C9_Witness ==
    /\ sb_pc = "done"
    /\ Len(places) = 3
    /\ Len(schedule) = 2
    /\ schedule[1].place.place_id = 1
    /\ schedule[2].place.place_id = 3

(***************************************************************************)
(* Properties of optimize_day                                              *)
(***************************************************************************)
\* number of positions of the list ps that hold a place with identifier id
CountOf(id, ps) == Cardinality({k \in 1..Len(ps) : ps[k].place_id = id})

PlaceIds == {p.place_id : p \in TourPlaces}

\* C3: for both values of preserve_order and whether or not routing calls
\* fail, the places returned by optimize_day are a permutation of the input:
\* same length, same multiset of place identifiers (and the same places).
C3_Permutation ==
    ro_pc = "done" =>
        /\ Len(result.places) = Len(opt_places)
        /\ \A id \in PlaceIds : CountOf(id, result.places) = CountOf(id, opt_places)
        /\ \A k \in 1..Len(result.places) :
              \E m \in 1..Len(opt_places) : result.places[k] = opt_places[m]

\* the heuristic reordered a list that holds one place twice, and a 2-opt swap
\* was made
C3_Witness ==
    /\ ro_pc = "done"
    /\ ~preserve_order
    /\ calls = <<TRUE>>
    /\ iterations >= 2
    /\ result.places # opt_places
    /\ \E id \in PlaceIds : CountOf(id, opt_places) = 2

\* distance and duration that leg k contributes when a failed call counts as fb
LegDistance(k, fb) ==
    IF calls[k] THEN RoadMeters(opt_places[k].location, opt_places[k + 1].location)
    ELSE fb.distance_meters

LegDuration(k, fb) ==
    IF calls[k] THEN RoadSeconds(traffic, opt_places[k].location,
                                 opt_places[k + 1].location)
    ELSE fb.duration_seconds

RECURSIVE SumLegDistance(_, _)
SumLegDistance(k, fb) ==
    IF k = 0 THEN 0 ELSE LegDistance(k, fb) + SumLegDistance(k - 1, fb)

RECURSIVE SumLegDuration(_, _)
SumLegDuration(k, fb) ==
    IF k = 0 THEN 0 ELSE LegDuration(k, fb) + SumLegDuration(k - 1, fb)

\* C4 as stated: with preserve_order and at least 2 places the order is kept
\* and the totals are the sum over the legs, a failed leg counting exactly
\* 1000 m / 600 s.
C4_PreservedOrderTotals ==
    (ro_pc = "done" /\ preserve_order /\ Len(opt_places) >= 2) =>
        /\ result.places = opt_places
        /\ Len(calls) = Len(opt_places) - 1
        /\ result.total_distance_meters
              = SumLegDistance(Len(opt_places) - 1,
                               [distance_meters |-> 1000, duration_seconds |-> 600])
        /\ result.total_duration_seconds
              = SumLegDuration(Len(opt_places) - 1,
                               [distance_meters |-> 1000, duration_seconds |-> 600])

\* C4 amended: the same, a failed leg counting 1000 m / 600 s in a list of at
\* least 3 places and 1000 m / 720 s in a list of exactly 2 places.
C4_PreservedOrderTotalsBySize ==
    (ro_pc = "done" /\ preserve_order /\ Len(opt_places) >= 2) =>
        LET fb == IF Len(opt_places) = 2
                  THEN [distance_meters |-> 1000, duration_seconds |-> 720]
                  ELSE [distance_meters |-> 1000, duration_seconds |-> 600]
        IN  /\ result.places = opt_places
            /\ Len(calls) = Len(opt_places) - 1
            /\ result.total_distance_meters = SumLegDistance(Len(opt_places) - 1, fb)
            /\ result.total_duration_seconds = SumLegDuration(Len(opt_places) - 1, fb)

\* three legs of which the middle one failed
C4_Witness ==
    /\ ro_pc = "done"
    /\ preserve_order
    /\ calls = <<TRUE, FALSE, TRUE>>
    /\ result.places = opt_places
    /\ result.total_duration_seconds > 600

\* C5: without preserve_order and with n >= 3 places, a failed matrix fetch
\* gives the places in input order with 500 * n meters and 360 * n seconds.
C5_MatrixFailureFallback ==
    (ro_pc = "done" /\ ~preserve_order /\ Len(opt_places) >= 3 /\ calls = <<FALSE>>) =>
        /\ result.places = opt_places
        /\ result.total_distance_meters = 500 * Len(opt_places)
        /\ result.total_duration_seconds = 360 * Len(opt_places)

\* the fetch failed for a list that the heuristic would have reordered
C5_Witness ==
    /\ ro_pc = "done"
    /\ ~preserve_order
    /\ Len(opt_places) >= 3
    /\ calls = <<FALSE>>
    /\ result.places = opt_places
    /\ NearestNeighbor(DurationMatrix(traffic, opt_places), Len(opt_places), 0)
          # [k \in 1..Len(opt_places) |-> k - 1]

(***************************************************************************)
(* Properties of evaluate                                                  *)
(***************************************************************************)
\* C10: whatever subset of the evaluators raises, the report holds exactly
\* seven metric results in the evaluator order; a raising evaluator is
\* replaced by a result with score 50, its own name and weight and one issue
\* carrying the error text, and every other result is the one that evaluator
\* returns for the itinerary.
C10_EvaluatorFailureIsolated ==
    sc_pc = "done" =>
        /\ Len(report.metrics) = 7
        /\ \A e \in 1..7 :
              LET r == report.metrics[e]
              IN  /\ r.name = EVALUATORS[e].name
                  /\ r.weight = QUALITY_METRIC_WEIGHTS[EVALUATORS[e].key]
                  /\ IF e \in faulty
                     THEN /\ r.score = <<50, 1>>
                          /\ Len(r.issues) = 1
                          /\ r.issues[1][2] = ErrorText(e)
                     ELSE r = EvaluatorResult(e, itinerary)

\* the first and the fifth evaluator raised, the others did not, and one of
\* the others found issues
C10_Witness ==
    /\ sc_pc = "done"
    /\ faulty = {1, 5}
    /\ report.metrics[1].score = <<50, 1>>
    /\ report.metrics[2].score = <<30, 1>>
    /\ report.metrics[2].issues # <<>>
    /\ report.metrics[7].score = <<100, 1>>

\* the grade ladder as the documentation tabulates it: lower bound and grade
GradeLadder ==
    { <<95, "A+">>, <<90, "A">>, <<85, "A-">>, <<80, "B+">>, <<75, "B">>,
      <<70, "B-">>, <<65, "C+">>, <<60, "C">>, <<55, "C-">>, <<50, "D">> }

\* the ladder grade of the score num / den: the grade of the highest bound
\* the score reaches, F when it reaches none
LadderGrade(num, den) ==
    LET reached == {b \in GradeLadder : num >= b[1] * den}
    IN  IF reached = {} THEN "F"
        ELSE (CHOOSE b \in reached : \A c \in reached : c[1] <= b[1])[2]

\* C11: the report's overall_score is sum(score * weight) / sum(weight) over
\* the metric results present, and 0 when there are none or their weights sum
\* to 0; it lies in [0, 100]; overall_grade is the ladder grade of it.
C11_WeightedMean ==
    agg_pc = "done" =>
        LET n == Len(agg_results)
            weight_sum[k \in 0..n] ==
                IF k = 0 THEN 0 ELSE weight_sum[k - 1] + agg_results[k].weight
            common[k \in 0..n] ==
                IF k = 0 THEN 1 ELSE common[k - 1] * agg_results[k].score[2]
            weighted_sum[k \in 0..n] ==
                IF k = 0 THEN 0
                ELSE weighted_sum[k - 1]
                       + agg_results[k].score[1] * (common[n] \div agg_results[k].score[2])
                           * agg_results[k].weight
            num == agg_report.overall_score[1]
            den == agg_report.overall_score[2]
        IN  /\ den > 0
            /\ IF n = 0 \/ weight_sum[n] = 0
               THEN num = 0
               ELSE num * weight_sum[n] * common[n] = weighted_sum[n] * den
            /\ 0 <= num /\ num <= 100 * den
            /\ agg_report.overall_grade = LadderGrade(num, den)

\* two results of different weights whose mean is not a whole number
C11_Witness ==
    /\ agg_pc = "done"
    /\ Len(agg_results) = 2
    /\ agg_results[1].weight = 10 /\ agg_results[2].weight = 20
    /\ agg_results[1].score = <<149, 3>> /\ agg_results[2].score = <<100, 1>>
    /\ agg_report.overall_score = <<7490, 90>>
    /\ agg_report.overall_grade = "B+"

\* the grades from worst to best
GradeOrder == << "F", "D", "C-", "C", "C+", "B-", "B", "B+", "A-", "A", "A+" >>

GradeRank(g) == CHOOSE k \in 1..Len(GradeOrder) : GradeOrder[k] = g

\* C12: from_score is a monotone step function: of two scores the higher
\* never gets the worse grade; each bound 95, 90, ... 50 maps to its grade,
\* the score one unit below a bound maps to the next lower grade, and every
\* score below 50 maps to F.
C12_GradeLadder ==
    gr_pc = "done" =>
        /\ (gr_prev.score[1] * gr_score[2] <= gr_score[1] * gr_prev.score[2]
                => GradeRank(gr_prev.grade) <= GradeRank(gr_grade))
        /\ \A b \in GradeLadder :
              /\ (gr_score[1] = b[1] * gr_score[2] => gr_grade = b[2])
              /\ (gr_score[1] = (b[1] - 1) * gr_score[2]
                    => gr_grade = GradeOrder[GradeRank(b[2]) - 1])
        /\ (gr_score[1] < 50 * gr_score[2] => gr_grade = "F")

\* from_score(94) returned A and then from_score(95) returned A+
C12_Witness ==
    /\ gr_pc = "done"
    /\ gr_prev = [score |-> <<188, 2>>, grade |-> "A"]
    /\ gr_score = <<190, 2>>
    /\ gr_grade = "A+"

\* the metric each result name stands for (name_map of _build_quality_score)
MetricOfName ==
    [ n \in {"Meal Timing", "Geographic Clustering", "Travel Efficiency",
             "Variety & Diversity", "Opening Hours", "Theme Alignment",
             "Duration Appropriateness"} |->
        CASE n = "Meal Timing" -> "meal_timing"
          [] n = "Geographic Clustering" -> "geographic_clustering"
          [] n = "Travel Efficiency" -> "travel_efficiency"
          [] n = "Variety & Diversity" -> "variety"
          [] n = "Opening Hours" -> "opening_hours"
          [] n = "Theme Alignment" -> "theme_alignment"
          [] n = "Duration Appropriateness" -> "duration_appropriateness" ]

\* the weight table as the documentation states it, in hundredths
DocumentedWeights ==
    [ meal_timing |-> 20, geographic_clustering |-> 15, travel_efficiency |-> 15,
      variety |-> 15, opening_hours |-> 15, theme_alignment |-> 10,
      duration_appropriateness |-> 10 ]

\* C13: the seven weights are the documented ones and sum to 1.0 within
\* 0.01; every metric result carries the table weight of its metric, so the
\* weights of the seven results of a report sum to 1.0 within 0.01.
C13_WeightsSumToOne ==
    LET table_sum ==
            QUALITY_METRIC_WEIGHTS.meal_timing + QUALITY_METRIC_WEIGHTS.geographic_clustering
              + QUALITY_METRIC_WEIGHTS.travel_efficiency + QUALITY_METRIC_WEIGHTS.variety
              + QUALITY_METRIC_WEIGHTS.opening_hours + QUALITY_METRIC_WEIGHTS.theme_alignment
              + QUALITY_METRIC_WEIGHTS.duration_appropriateness
        n == Len(metric_results)
        result_sum[k \in 0..n] ==
            IF k = 0 THEN 0 ELSE result_sum[k - 1] + metric_results[k].weight
    IN  /\ QUALITY_METRIC_WEIGHTS = DocumentedWeights
        /\ 99 <= table_sum /\ table_sum <= 101
        /\ \A k \in 1..n :
              metric_results[k].weight
                 = QUALITY_METRIC_WEIGHTS[MetricOfName[metric_results[k].name]]
        /\ (sc_pc = "done" =>
              /\ report.metrics = metric_results
              /\ n = 7
              /\ 99 <= result_sum[n] /\ result_sum[n] <= 101)

\* a report whose third result stands in for a raising evaluator and whose
\* last result is a returned one
C13_Witness ==
    /\ sc_pc = "done"
    /\ faulty = {3}
    /\ report.metrics[3].weight = 15
    /\ report.metrics[1].weight = 20
    /\ report.metrics[7].weight = 10
    /\ report.metrics[7].score = <<30, 1>>

\* the day has no activity of a dining category
ZeroDining(day) ==
    \A k \in 1..Len(day.activities) :
        LowerCategory(day.activities[k].place.category) \notin DINING_CATEGORIES

\* the missing-meal issues of day number d as the report carries them
NoLunchIssue(d) == << "Meal Timing", <<"No lunch found between 11:00-15:30", d>> >>
NoDinnerIssue(d) == << "Meal Timing", <<"No dinner found between 17:30-22:00", d>> >>

IsIn(x, seq) == \E k \in 1..Len(seq) : seq[k] = x

\* C14 as stated: for a day with zero dining activities both meal-presence
\* checks fail and the day contributes 0 passed checks; whenever the Meal
\* Timing score is below 50, that day's missing-meal issues are among the
\* report's critical_issues.
C14_ZeroDiningCritical ==
    (sc_pc = "done" /\ 1 \notin faulty) =>
        \A k \in 1..Len(itinerary.days) :
            ZeroDining(itinerary.days[k]) =>
                /\ EvaluateDay(itinerary.days[k]).passed_checks = 0
                /\ IsIn(NoLunchIssue(k), report.metrics[1].issues)
                /\ IsIn(NoDinnerIssue(k), report.metrics[1].issues)
                /\ (ScoreLess(report.metrics[1].score, <<50, 1>>) =>
                      /\ IsIn(NoLunchIssue(k), report.critical_issues)
                      /\ IsIn(NoDinnerIssue(k), report.critical_issues))

\* C14 amended: for a day with zero dining activities both meal-presence
\* checks fail: the day contributes 2 checks, 0 passed checks and its two
\* missing-meal issues to the Meal Timing result.  Whenever the Meal Timing
\* score is below 50, critical_issues begins with the first two issues of
\* the Meal Timing result, so the day's two missing-meal issues are among
\* critical_issues exactly when no earlier day raised a Meal Timing issue.
C14_ZeroDiningCriticalIfFirst ==
    (sc_pc = "done" /\ 1 \notin faulty) =>
        \A k \in 1..Len(itinerary.days) :
            ZeroDining(itinerary.days[k]) =>
                /\ EvaluateDay(itinerary.days[k]).total_checks = 2
                /\ EvaluateDay(itinerary.days[k]).passed_checks = 0
                /\ IsIn(NoLunchIssue(k), report.metrics[1].issues)
                /\ IsIn(NoDinnerIssue(k), report.metrics[1].issues)
                /\ (ScoreLess(report.metrics[1].score, <<50, 1>>) =>
                      /\ Take(report.critical_issues, 2) = Take(report.metrics[1].issues, 2)
                      /\ ( ( /\ IsIn(NoLunchIssue(k), report.critical_issues)
                             /\ IsIn(NoDinnerIssue(k), report.critical_issues) )
                           <=> \A j \in 1..(k - 1) :
                                   EvaluateDay(itinerary.days[j]).issues = <<>> ))

\* a two-day itinerary whose second day has no dining activity and whose
\* first day misses its dinner: the score is below 50 and the second day's
\* missing-dinner issue is not among the critical issues
C14_Witness ==
    /\ sc_pc = "done"
    /\ 1 \notin faulty
    /\ Len(itinerary.days) = 2
    /\ ZeroDining(itinerary.days[2])
    /\ ~ZeroDining(itinerary.days[1])
    /\ ScoreLess(report.metrics[1].score, <<50, 1>>)
    /\ IsIn(NoDinnerIssue(1), report.critical_issues)
    /\ IsIn(NoLunchIssue(2), report.critical_issues)
    /\ ~IsIn(NoDinnerIssue(2), report.critical_issues)

\* what evaluate returns for the itinerary when it is the only call ever made
ReportAlone(itin) == QualityReport([e \in EvaluatorIds |-> EvaluatorResult(e, itin)])

\* C15: evaluate never modifies the itinerary it is given, and the report of
\* a finished call is the report of evaluating its itinerary alone, whatever
\* calls were made before it or were in progress beside it.
C15_EvaluatePure ==
    /\ [](\A f \in Frames :
             fr_pc[f] = "done" => fr_report[f] = ReportAlone(fr_itinerary[f]))
    /\ [][\A f \in Frames :
             fr_pc[f] = "evaluating" => fr_itinerary'[f] = fr_itinerary[f]]_vars

\* frame 1 has finished a call on a day without any passed meal check while
\* frame 2, called with another itinerary, is halfway through its evaluators
C15_Witness ==
    /\ fr_pc[1] = "done"
    /\ fr_pc[2] = "evaluating"
    /\ fr_ev[2] = 3
    /\ fr_itinerary[1] # fr_itinerary[2]
    /\ fr_report[1].metrics[1].score[1] = 0
    /\ fr_itinerary[2].findings[1].issues = <<>>


(***************************************************************************)
(* C16                                                                     *)
(***************************************************************************)
\* C16: for at least 2 waypoints compute_routes_batch returns
\* len(waypoints) - 1 routes; element k is the route of the leg from waypoint
\* k to waypoint k + 1 whatever the order in which the tasks completed, and
\* the fallback route (1000 m, 720 s) exactly where the leg's task failed
C16_BatchAligned ==
    (bt_pc = "done" /\ Len(bt_waypoints) >= 2) =>
        /\ Len(bt_routes) = Len(bt_waypoints) - 1
        /\ \A k \in 1..(Len(bt_waypoints) - 1) :
              IF bt_results[k].state = "raised"
                  THEN /\ bt_routes[k].distance_meters = 1000
                       /\ bt_routes[k].duration_seconds = 720
                       /\ bt_routes[k].travel_mode = bt_mode
                       /\ bt_routes[k].polyline = <<>>
                  ELSE bt_routes[k] = ComputeRoute(bt_waypoints[k],
                                                   bt_waypoints[k + 1], bt_mode)

\* three different legs whose tasks completed last to first, the middle one
\* with an exception
C16_Witness ==
    /\ bt_pc = "done"
    /\ bt_waypoints = << 1, 3, 2, 2 >>
    /\ bt_order = << 3, 2, 1 >>
    /\ bt_results[2].state = "raised"
    /\ bt_results[1].state = "returned"
    /\ bt_results[3].state = "returned"
    /\ bt_routes[2].distance_meters = 1000
    /\ bt_routes[1].polyline = << 1, 3 >>
    /\ bt_routes[3].polyline = << 2, 2 >>


(***************************************************************************)
(* C17                                                                     *)
(***************************************************************************)
\* the total _calculate_totals reports for a tour: the sum of the duration
\* matrix over consecutive positions
TourDuration(t, m) == CalculateTotals(t, m, m)[2]

\* C17: for any duration matrix every accepted swap of _two_opt_improve (a
\* positive gain, so the segment between positions i+1 and j is reversed)
\* strictly decreases the total duration of the tour, the sum of the matrix
\* over consecutive tour positions
C17_SwapDecreasesTotal ==
    [][(ro_pc = "swap" /\ TwoOptGain(tour, oi, oj, matrix) > 0)
          => /\ tour' = ReverseSegment(tour, oi, oj)
             /\ TourDuration(tour', matrix) < TourDuration(tour, matrix)]_vars


(***************************************************************************)
(* C18                                                                     *)
(***************************************************************************)
\* the tour has two non-adjacent edges (positions i, i+1 and j, j+1) whose
\* exchange, the reversal of the segment between them, shortens the tour
Crossing(t, m) ==
    \E ti \in 0..(Len(t) - 2) : \E tj \in (ti + 2)..(Len(t) - 2) :
        TourDuration(ReverseSegment(t, ti, tj), m) < TourDuration(t, m)

\* the tour _two_opt_improve was given by _optimize_tsp
NearestNeighborTour == NearestNeighbor(matrix, Len(opt_places), 0)

\* C18: with a symmetric duration matrix, a tour containing a crossing comes
\* back from _two_opt_improve with a strictly smaller total duration, and
\* optimize_day never reports a longer total duration than that of the
\* nearest-neighbour tour it started from
C18_NeverLongerThanNearestNeighbor ==
    (ro_pc = "done" /\ ~first_run.returned /\ Symmetric(matrix)) =>
        /\ Crossing(NearestNeighborTour, matrix) =>
              TourDuration(tour, matrix) < TourDuration(NearestNeighborTour, matrix)
        /\ result.total_duration_seconds <= TourDuration(NearestNeighborTour, matrix)


(***************************************************************************)
(* C19                                                                     *)
(***************************************************************************)
\* C19: when a run of _two_opt_improve ended because a full pass made no
\* improving swap, a second run on the returned tour with the same matrix
\* makes no swap, ends after its first pass and returns the same tour
C19_IdempotentAtConvergence ==
    (first_run.returned /\ first_run.converged) =>
        /\ tour = first_run.tour
        /\ iterations <= 1
        /\ (ro_pc = "done" =>
               result.places = [k \in 1..Len(tour) |-> opt_places[first_run.tour[k] + 1]])

\* the first run changed the nearest-neighbour tour and converged, and the
\* second run on its result has returned
C19_Witness ==
    /\ first_run.returned /\ first_run.converged
    /\ first_run.tour # NearestNeighborTour
    /\ ro_pc = "done"
    /\ ~Symmetric(matrix)


(***************************************************************************)
(* C20                                                                     *)
(***************************************************************************)
\* C20: _two_opt_improve always terminates, on any duration matrix: it never
\* makes more than 100 passes, it begins a pass only after a pass with an
\* improving swap and fewer than 100 passes, it returns only after a pass
\* without an improving swap or after 100 passes, and every run returns
C20_TerminatesWithinCap ==
    /\ [](iterations <= 100)
    /\ [][(ro_pc = "while" /\ ro_pc' = "swap")
             => (improved /\ iterations < 100 /\ iterations' = iterations + 1)]_vars
    /\ [][(ro_pc = "while" /\ ro_pc' = "done")
             => (~improved \/ iterations = 100)]_vars
    /\ [](ro_pc \in {"while", "swap"} => <>(ro_pc = "done"))

\* a run on an asymmetric matrix that returned after 100 passes, the last of
\* which still made an improving swap
C20_Witness ==
    /\ ro_pc = "done"
    /\ iterations = 100
    /\ improved
    /\ ~Symmetric(matrix)
    /\ ~first_run.returned


(***************************************************************************)
(* C21                                                                     *)
(***************************************************************************)
\* C21: the tour _nearest_neighbor returns for an n x n duration matrix
\* starts at index 0, holds every index 0..n-1 exactly once, and at each
\* position holds the index that, among those not in the tour before it, has
\* the least duration from the index before it, the lowest such index when
\* several have the least
C21_NearestNeighborTour ==
    (ro_pc = "while" /\ iterations = 0 /\ ~first_run.returned) =>
        LET n == Len(opt_places)
            before(p) == {tour[k] : k \in 1..(p - 1)}
        IN  /\ Len(tour) = n
            /\ tour[1] = 0
            /\ \A x \in 0..(n - 1) : Cardinality({p \in 1..n : tour[p] = x}) = 1
            /\ \A p \in 2..n :
                  /\ tour[p] \notin before(p)
                  /\ \A x \in (0..(n - 1)) \ before(p) :
                        \/ matrix[tour[p - 1]][tour[p]] < matrix[tour[p - 1]][x]
                        \/ /\ matrix[tour[p - 1]][tour[p]] = matrix[tour[p - 1]][x]
                           /\ tour[p] <= x

\* a tour of four places was built where, at the second step, two unvisited
\* indices tied for the least duration and the lower one was taken
C21_Witness ==
    /\ ro_pc = "while" /\ iterations = 0 /\ ~first_run.returned
    /\ Len(tour) = 4
    /\ \E x \in 0..3 :
          /\ x # tour[3] /\ x # tour[1] /\ x # tour[2]
          /\ matrix[tour[2]][x] = matrix[tour[2]][tour[3]]
          /\ tour[3] < x
    /\ tour # << 0, 1, 2, 3 >>


(***************************************************************************)
(* C22                                                                     *)
(***************************************************************************)
\* C22: in one build_schedule pass the meal logic moves the clock only for a
\* dining place, to the lunch target for the first dining place and to the
\* dinner target for the second, hence for at most two places; a dining
\* place after the second and a non-dining place keep the clock the opening
\* hours left them
C22_MealShiftsAtMostTwo ==
    [][(sb_pc = "loop" /\ i' = i + 1) =>
          LET place == PlaceAt(places, i)
              shifted == iter'.clock # iter'.gated
          IN  /\ meals_scheduled' =
                    IF IsMealPlace(place) THEN meals_scheduled + 1 ELSE meals_scheduled
              /\ shifted =>
                    /\ IsMealPlace(place)
                    /\ \/ /\ meals_scheduled' = 1
                          /\ iter'.clock = 12 * 60 + 30
                       \/ /\ meals_scheduled' = 2
                          /\ iter'.clock = 19 * 60
              /\ (~IsMealPlace(place) \/ meals_scheduled' > 2) => ~shifted
              /\ (~shifted /\ iter'.outcome \in {"full", "shrunk"}) =>
                    schedule'[Len(schedule')].start_time = Strftime(iter'.gated)]_vars

\* three dining places: the first was moved to 12:30, the second to 19:00 and
\* the third was scheduled at the clock it was reached at
C22_Witness ==
    /\ sb_pc = "done"
    /\ Len(schedule) = 3
    /\ \A k \in 1..3 : IsMealPlace(schedule[k].place)
    /\ schedule[1].start_time = << 12, 30 >>
    /\ schedule[2].start_time = << 19, 0 >>
    /\ iter.clock = iter.reached
    /\ schedule[3].start_time = Strftime(iter.reached)


(***************************************************************************)
(* C23                                                                     *)
(***************************************************************************)
\* index of the place's first hours entry for the weekday of schedule_date
\* (0 = Sunday convention), 0 when it publishes none
HoursIndex(place) == FirstHoursFor(place.opening_hours, (schedule_date + 1) % 7, 1)

\* the open time on schedule_date of a place that publishes hours for it
OpenTime(place) == ParseTimeStr(place.opening_hours[HoursIndex(place)].open_time)

\* C23: opening-hours gating only moves the clock forward: when the place
\* publishes hours for the weekday of the schedule date and the clock is
\* before that open time the clock becomes the open time, otherwise it stays;
\* so every scheduled activity whose place publishes hours for that weekday
\* starts at or after that open time
C23_OpeningHoursGating ==
    /\ (sb_pc # "idle" /\ i >= 1) =>
          /\ iter.gated >= iter.reached
          /\ IF HoursIndex(IterPlace) # 0
                  /\ iter.reached < Combine(0, OpenTime(IterPlace))
             THEN iter.gated = Combine(0, OpenTime(IterPlace))
             ELSE iter.gated = iter.reached
    /\ \A k \in 1..Len(schedule) :
          HoursIndex(schedule[k].place) # 0 =>
              ParseTimeStr(schedule[k].start_time) >= OpenTime(schedule[k].place)


(***************************************************************************)
(* C24                                                                     *)
(***************************************************************************)
\* C24: every activity of a schedule, cut to the day end or not, lasts at
\* least min_activity_duration (30 minutes), whatever the place type, the
\* suggested duration and the pace
C24_MinimumDuration ==
    \A k \in 1..Len(schedule) : schedule[k].duration_minutes >= 30


(***************************************************************************)
(* C25                                                                     *)
(***************************************************************************)
\* the issues metric k of the report hands to critical_issues: its first two
\* when it scores strictly below 50, none otherwise
CriticalCount(k) ==
    IF ScoreLess(report.metrics[k].score, <<50, 1>>)
    THEN Min(2, Len(report.metrics[k].issues))
    ELSE 0

\* the place in the untruncated critical list of issue j of metric k
CriticalPosition(k, j) ==
    SumSeq([x \in 1..(k - 1) |-> CriticalCount(x)], k - 1) + j

\* C25: critical_issues is, in evaluator order, the first two issues of each
\* metric scoring strictly below 50 and nothing else, cut to its first five;
\* no issue of a metric scoring 50 or more (the neutral 50 of a failed
\* evaluator included) is among them.
C25_CriticalIssues ==
    sc_pc = "done" =>
        LET n == Len(report.metrics)
            total == SumSeq([x \in 1..n |-> CriticalCount(x)], n)
        IN  /\ n = Len(EVALUATORS)
            /\ \A k \in 1..n : report.metrics[k].name = EVALUATORS[k].name
            /\ \A k \in faulty : report.metrics[k].score = <<50, 1>>
            /\ Len(report.critical_issues) = Min(5, total)
            /\ \A k \in 1..n : \A j \in 1..CriticalCount(k) :
                  CriticalPosition(k, j) <= 5 =>
                      report.critical_issues[CriticalPosition(k, j)]
                          = report.metrics[k].issues[j]
            /\ \A k \in 1..n :
                  ~ScoreLess(report.metrics[k].score, <<50, 1>>) =>
                      \A j \in 1..Len(report.metrics[k].issues) :
                          ~IsIn(report.metrics[k].issues[j], report.critical_issues)

\* the second evaluator failed between critical metrics 1, 3 and 4: the
\* critical issues are two of metric 1, two of metric 3 and one of metric 4
C25_Witness ==
    /\ sc_pc = "done"
    /\ faulty = {2}
    /\ report.metrics[2].issues # <<>>
    /\ Len(report.metrics[1].issues) = 3
    /\ report.critical_issues =
          << report.metrics[1].issues[1], report.metrics[1].issues[2],
             report.metrics[3].issues[1], report.metrics[3].issues[2],
             report.metrics[4].issues[1] >>


(***************************************************************************)
(* C26                                                                     *)
(***************************************************************************)
\* the metrics of the aggregated results that produced the suggestion
Producers(sg) ==
    {k \in 1..Len(agg_results) : IsIn(sg, agg_results[k].suggestions)}

\* every suggestion produced by some metric
AllSuggestions ==
    UNION {{agg_results[k].suggestions[j] : j \in 1..Len(agg_results[k].suggestions)} :
              k \in 1..Len(agg_results)}

\* sg comes from a metric that scores no higher than any producer of other
OriginNotAbove(sg, other) ==
    \E k \in Producers(sg) : \A m \in Producers(other) :
        ScoreLeq(agg_results[k].score, agg_results[m].score)

\* C26: recommendations holds each distinct suggestion at most once, ordered
\* ascending by the score of the metric it came from (the lowest-scoring one
\* for a suggestion several metrics produced), and is capped at five (the
\* five that come first in that order).
C26_Recommendations ==
    agg_pc = "done" =>
        LET rec == agg_report.recommendations
        IN  /\ \A p, q \in 1..Len(rec) : rec[p] = rec[q] => p = q
            /\ \A p \in 1..Len(rec) : rec[p] \in AllSuggestions
            /\ \A p, q \in 1..Len(rec) : p < q => OriginNotAbove(rec[p], rec[q])
            /\ Len(rec) = Min(5, Cardinality(AllSuggestions))
            /\ \A sg \in AllSuggestions :
                  ~IsIn(sg, rec) => \A p \in 1..Len(rec) : OriginNotAbove(rec[p], sg)

\* the metric scoring 20 stands between those scoring 60 and 90: the
\* suggestion it shares with the first comes first, the one it shares with the
\* third comes second, and the sixth distinct suggestion is cut
C26_Witness ==
    /\ agg_pc = "done"
    /\ Len(agg_results) = 3
    /\ agg_results[1].score = <<60, 1>>
    /\ agg_results[2].score = <<20, 1>>
    /\ agg_results[3].score = <<90, 1>>
    /\ agg_results[1].suggestions =
          << <<"shorten visits">>, <<"check hours">>, <<"add lunch">> >>
    /\ agg_results[2].suggestions = << <<"add lunch">>, <<"add dinner">> >>
    /\ Len(agg_results[3].suggestions) = 4
    /\ Cardinality(AllSuggestions) = 6
    /\ agg_report.recommendations =
          << <<"add lunch">>, <<"add dinner">>, <<"shorten visits">>,
             <<"check hours">>, <<"group nearby">> >>



(***************************************************************************)
(* C27                                                                     *)
(***************************************************************************)
\* C27: for every activity of a schedule, cut to the day end or not, the
\* time of day end_time minus the time of day start_time is duration_minutes
C27_DurationIsEndMinusStart ==
    \A k \in 1..Len(schedule) :
        ParseTimeStr(schedule[k].end_time) - ParseTimeStr(schedule[k].start_time)
            = schedule[k].duration_minutes

\* a full activity followed by one cut to the day end that starts off the
\* quarter hour
C27_Witness ==
    /\ sb_pc = "done"
    /\ Len(schedule) = 2
    /\ iter.outcome = "shrunk"
    /\ schedule[1].duration_minutes = GetDuration(schedule[1].place, pace)
    /\ schedule[1].duration_minutes > 0
    /\ schedule[2].end_time = Strftime(DayEnd)
    /\ schedule[2].duration_minutes < GetDuration(schedule[2].place, pace)
    /\ schedule[2].duration_minutes % 15 # 0


(***************************************************************************)
(* C28                                                                     *)
(***************************************************************************)
\* activity k was cut: it lasts less than _get_duration gave its place
Truncated(k) ==
    schedule[k].duration_minutes < GetDuration(schedule[k].place, pace)

\* C28: at most one activity of a schedule is cut to the day end; it ends
\* exactly at day_end and is the last activity of the returned schedule (every
\* input place after it is dropped).
C28_TruncatedIsLast ==
    /\ \A k, m \in 1..Len(schedule) : (Truncated(k) /\ Truncated(m)) => k = m
    /\ \A k \in 1..Len(schedule) :
          Truncated(k) =>
              /\ schedule[k].end_time = Strftime(DayEnd)
              /\ (sb_pc = "done" => k = Len(schedule))


(***************************************************************************)
(* C29                                                                     *)
(***************************************************************************)
\* C29: when build_schedule drops a place, the state carried to the next
\* place (current_time, has_lunch, has_dinner, the count of meals seen) is
\* after the drop what it was when the place was reached.
C29_DropLeavesStateAlone ==
    [][ ( /\ sb_pc = "loop"
          /\ i' = i + 1
          /\ iter'.outcome \in {"skip_past", "skip_short"} )
        => /\ schedule' = schedule
           /\ current_time' = current_time
           /\ has_lunch' = has_lunch
           /\ has_dinner' = has_dinner
           /\ meals_scheduled' = meals_scheduled ]_vars


(***************************************************************************)
(* C30                                                                     *)
(***************************************************************************)
\* C30: in the DayPlan assembled from a build_schedule result, every
\* activity's route_to_next is the route from that activity's place to the
\* place of the next activity and the last activity has none, also on a day
\* where build_schedule dropped places.
C30_RouteToNextAligned ==
    gen_pc = "done" =>
        \A k \in 1..Len(gen_activities) :
            gen_activities[k].route_to_next =
                IF k = Len(gen_activities) THEN NoRoute
                ELSE ComputeRoute(gen_activities[k].place.location,
                                  gen_activities[k + 1].place.location, travel_mode)

====
